---- MODULE Spec2Model ----
(***************************************************************************)
(* Model of the PDF extraction core of webfetch (pdf.go):                  *)
(* convertPDFToMarkdown with its size guard, page scheduler, worker        *)
(* goroutines, wait group and assembler, and extractPageText.              *)
(*                                                                         *)
(* A bytes.Buffer / strings.Builder is modelled as the sequence of the     *)
(* strings written to it; Bytes(b) is the byte string it holds.            *)
(* Coordinates of text fragments are integers (whole points).              *)
(***************************************************************************)
EXTENDS Integers, Sequences, FiniteSets, TLC

\* ------------------------------------------------------------------------
\* Program constants
\* ------------------------------------------------------------------------
maxPDFSize == 100 * 1024 * 1024

maxConcurrency == 32

defaultMaxContentTokens == 100000

\* ------------------------------------------------------------------------
\* Bounds of the model
\* ------------------------------------------------------------------------
\* largest page count of a document in Spec / SpecTwice
MaxPages == 3

\* largest runtime.GOMAXPROCS(0) in Spec / SpecTwice
MaxProcs == 3

\* largest page count and GOMAXPROCS in SpecSched (above maxConcurrency)
MaxSchedPages == 34

MaxSchedProcs == 34

\* SpecText: most fragments of a page, largest x and y of a fragment
MaxFrags == 3

MaxX == 3

MaxY == 2

\* SpecFetch: largest max_content_tokens given explicitly
MaxTokens == 3

\* SpecCleanup: longest argument of cleanupMarkdown, in bytes
MaxLen == 6

\* concurrent calls of convertPDFToMarkdown
MaxCalls == 2

\* ------------------------------------------------------------------------
\* Strings written by the code
\* ------------------------------------------------------------------------
PageSeparator == "\n\n---\n\n"

PageHeader(pageNum) == "## Page " \o ToString(pageNum) \o "\n\n"

PageNotFound == "[Error: page not found]\n"

ErrNil == <<>>

ErrDeclaredTooLarge(contentLength) ==
    <<"PDF too large: ", ToString(contentLength), " bytes (max ",
      ToString(maxPDFSize), " bytes)">>

ErrRead == <<"failed to read PDF: ", "read error">>

ErrActualTooLarge == <<"PDF too large: ", "exceeds ", ToString(maxPDFSize), " bytes">>

ErrParse == <<"failed to parse PDF: ", "parse error">>

\* ------------------------------------------------------------------------
\* Helpers
\* ------------------------------------------------------------------------
Min2(a, b) == IF a < b THEN a ELSE b

Min3(a, b, c) == Min2(a, Min2(b, c))

abs(x) == IF x < 0 THEN -x ELSE x

RECURSIVE Bytes(_)
Bytes(b) == IF b = <<>> THEN "" ELSE Head(b) \o Bytes(Tail(b))

\* ------------------------------------------------------------------------
\* Documents: a page is a record; null marks a page whose lookup yields a
\* null value (page.V.IsNull()), text is content.Text of the page.
\* ------------------------------------------------------------------------
Frag(s, x, y, w, fs) == [S |-> s, X |-> x, Y |-> y, W |-> w, FontSize |-> fs]

NullPage == [null |-> TRUE, text |-> <<>>]

EmptyPage == [null |-> FALSE, text |-> <<>>]

HelloPage == [null |-> FALSE,
              text |-> <<Frag("Hello", 72, 700, 30, 12), Frag("", 102, 700, 0, 12),
                         Frag("World", 106, 700, 32, 12), Frag("!", 138, 700, 3, 12),
                         Frag("Second", 72, 680, 40, 12)>>]

PageKinds == {NullPage, EmptyPage, HelloPage}

RECURSIVE SeqsUpTo(_, _)
SeqsUpTo(S, n) ==
    IF n = 0 THEN {<<>>}
    ELSE LET shorter == SeqsUpTo(S, n - 1)
         IN  shorter \cup {Append(d, p) : d \in {e \in shorter : Len(e) = n - 1}, p \in S}

Docs == SeqsUpTo(PageKinds, MaxPages)

\* declared Content-Length values: unknown, small, at the ceiling, above it
ContentLengths == {-1, 0, maxPDFSize, maxPDFSize + 1, 2 * maxPDFSize}

\* number of bytes the stream yields before it ends
StreamLens == {0, 5, maxPDFSize, maxPDFSize + 1, maxPDFSize + 100}

\* an input of convertPDFToMarkdown: the declared length and the stream r.
\* The stream yields streamLen bytes and then ends with EOF, or with an
\* error when streamErr; parseOK and doc are what pdf.NewReader makes of
\* the bytes: an empty byte string does not parse, and bytes that do not
\* parse have no pages.
Inputs ==
    {in \in [contentLength : ContentLengths, streamLen : StreamLens,
             streamErr : BOOLEAN, parseOK : BOOLEAN, doc : Docs] :
        /\ in.streamLen = 0 => ~in.parseOK
        /\ ~in.parseOK => in.doc = <<>>}

\* ------------------------------------------------------------------------
\* State
\* ------------------------------------------------------------------------
VARIABLES
    input,          \* the arguments of the call (r, contentLength)
    run,            \* 1 for the first call, 2 for the second (SpecTwice)
    prevResult,     \* result of the first call
    prevErr,        \* error of the first call
    pc,             \* position of the calling goroutine
    buf,            \* ingestion buffer: held, number of bytes
    readStarted,    \* buf.ReadFrom was called
    bytesRead,      \* bytes consumed from the stream r
    parsed,         \* pdf.NewReader was called
    gomaxprocs,     \* what runtime.GOMAXPROCS(0) returned at line 152
    numPages, numWorkers, pagesPerWorker, extraPages,
    page,           \* start page of the next worker (line 164)
    i,              \* loop index of the launch loop / the assembly loop
    wg,             \* sync.WaitGroup counter
    wpc,            \* position of each worker goroutine
    wStart, wEnd,   \* pageStart, pageEnd of each worker
    wPageNum,       \* pageNum of each worker
    wBuf,           \* workerBuf of each worker
    workerBuffers,  \* the array of maxConcurrency slots
    lookups,        \* pdfReader.Page calls, per page number
    pool,           \* Get / Put calls on pdfBufferPool and pageBufferPool
    result,         \* strings.Builder, then the returned string
    err,            \* returned error
    ept,            \* a call of extractPageText on its own (SpecText)
    prevNumWorkers, \* numWorkers of the first call (SpecTwice)
    fetch,          \* a call of handleWebfetch / FetchAndConvert (SpecFetch)
    cleanup,        \* a call of cleanupMarkdown (SpecCleanup)
    pdfBufferPool,  \* times each buffer lies in pdfBufferPool (SpecPool)
    pageBufferPool, \* times each buffer lies in pageBufferPool (SpecPool)
    buffers,        \* contents of the pooled buffers (SpecPool)
    calls           \* concurrent calls of convertPDFToMarkdown (SpecPool)

\* the state of one call of convertPDFToMarkdown
pdfVars == <<input, pc, buf, readStarted, bytesRead, parsed, gomaxprocs, numPages,
             numWorkers, pagesPerWorker, extraPages, page, i, wg, wpc, wStart, wEnd,
             wPageNum, wBuf, workerBuffers, lookups, pool, result, err>>

twiceVars == <<run, prevResult, prevErr, prevNumWorkers>>

poolVars == <<pdfBufferPool, pageBufferPool, buffers, calls>>

vars == <<pdfVars, twiceVars, ept, fetch, cleanup, poolVars>>

Workers == 0 .. maxConcurrency - 1

NilSlot == [set |-> FALSE, data |-> <<>>]

NoBuf == [held |-> FALSE, len |-> 0]

NoPool == [pdfGet |-> 0, pdfPut |-> 0, pageGet |-> 0, pagePut |-> 0]

\* extractPageText is not running on its own: pc, the number n of fragments
\* of content.Text visited, the fragment t visited last, the strings text
\* of the fragments visited, and st = [out, hasLast, lastText], the buffer
\* and the locals of lines 54-55
NoFrag == Frag("", 0, 0, 0, 0)

NoText == [pc |-> "none", n |-> 0, t |-> NoFrag, text |-> <<>>,
           st |-> [out |-> <<>>, hasLast |-> FALSE, lastText |-> NoFrag]]

\* no call of handleWebfetch / FetchAndConvert is running
NoResp == [StatusCode |-> 0, ContentType |-> "", ContentLength |-> -1]

NoFetch == [pc |-> "none", direct |-> FALSE, ctxNil |-> FALSE,
            URL |-> "", Timeout |-> "", MaxContentTokens |-> 0,
            maxContentTokens |-> 0,
            requestCreated |-> FALSE, requestSent |-> FALSE, bodyRead |-> FALSE,
            resp |-> NoResp, converter |-> "none", pdfContentLength |-> -1,
            markdown |-> "", err |-> ErrNil, text |-> "", isError |-> FALSE]

\* no call of cleanupMarkdown is running: the argument, the lines it was
\* split into, the number k of lines visited, and the locals result and
\* blankCount; out is the returned string
NoCleanup == [pc |-> "none", markdown |-> "", lines |-> <<>>, k |-> 0,
              result |-> <<>>, blankCount |-> 0, out |-> ""]

\* no concurrent calls: the pools are empty and no buffer was allocated
NoPoolCalls ==
    /\ pdfBufferPool = <<>>
    /\ pageBufferPool = <<>>
    /\ buffers = [pdf |-> <<>>, page |-> <<>>]
    /\ calls = <<>>

\* ------------------------------------------------------------------------
\* extractPageText (pdf.go 48-97)
\* ------------------------------------------------------------------------
\* mutant of IsNewLine: a difference of exactly 1 breaks the line
IsNewLineInclusive(t, lastText) == abs(t.Y - lastText.Y) >= 1

\* line 71: the fragment is on a different line than the last one
IsNewLine(t, lastText) == abs(t.Y - lastText.Y) > 1

\* mutant of IsWordGap: the threshold is taken from the current fragment
IsWordGapCurrentFont(t, lastText) ==
    LET expectedX == lastText.X + lastText.W
        gap == t.X - expectedX
    IN  IF t.FontSize < 5 THEN gap > 1 ELSE 5 * gap > t.FontSize

\* lines 80-90: gap > max(1, 0.2 * FontSize), in integer arithmetic
\* (0.2 * FontSize < 1 iff FontSize < 5; gap > 0.2 * FontSize iff 5 * gap > FontSize)
IsWordGap(t, lastText) ==
    LET expectedX == lastText.X + lastText.W
        gap == t.X - expectedX
    IN  IF lastText.FontSize < 5 THEN gap > 1 ELSE 5 * gap > lastText.FontSize

\* mutant of WriteFragment: an empty fragment moves the cursor
WriteFragmentCursorOnEmpty(st, t) ==
    IF t.S = "" THEN [st EXCEPT !.lastText = t]
    ELSE IF ~st.hasLast THEN
        [out |-> Append(st.out, t.S), hasLast |-> TRUE, lastText |-> t]
    ELSE IF IsNewLine(t, st.lastText) THEN
        [out |-> st.out \o <<"\n", t.S>>, hasLast |-> TRUE, lastText |-> t]
    ELSE IF IsWordGap(t, st.lastText) THEN
        [out |-> st.out \o <<" ", t.S>>, hasLast |-> TRUE, lastText |-> t]
    ELSE
        [out |-> Append(st.out, t.S), hasLast |-> TRUE, lastText |-> t]

\* mutant of WriteFragment: the gap is looked at on a new line too
WriteFragmentGapAfterNewLine(st, t) ==
    IF t.S = "" THEN st
    ELSE IF ~st.hasLast THEN
        [out |-> Append(st.out, t.S), hasLast |-> TRUE, lastText |-> t]
    ELSE LET nl == IF IsNewLine(t, st.lastText) THEN <<"\n">> ELSE <<>>
             sp == IF IsWordGap(t, st.lastText) THEN <<" ">> ELSE <<>>
         IN  [out |-> st.out \o nl \o sp \o <<t.S>>, hasLast |-> TRUE, lastText |-> t]

\* one iteration of the loop of lines 57-96; st = [out, hasLast, lastText]
WriteFragment(st, t) ==
    IF t.S = "" THEN st
    ELSE IF ~st.hasLast THEN
        [out |-> Append(st.out, t.S), hasLast |-> TRUE, lastText |-> t]
    ELSE IF IsNewLine(t, st.lastText) THEN
        [out |-> st.out \o <<"\n", t.S>>, hasLast |-> TRUE, lastText |-> t]
    ELSE IF IsWordGap(t, st.lastText) THEN
        [out |-> st.out \o <<" ", t.S>>, hasLast |-> TRUE, lastText |-> t]
    ELSE
        [out |-> Append(st.out, t.S), hasLast |-> TRUE, lastText |-> t]

RECURSIVE ExtractLoop(_, _)
ExtractLoop(text, st) ==
    IF text = <<>> THEN st ELSE ExtractLoop(Tail(text), WriteFragment(st, Head(text)))

\* the contents of buf after extractPageText(page, buf)
extractPageText(pg, b) ==
    ExtractLoop(pg.text, [out |-> b, hasLast |-> FALSE, lastText |-> NoFrag]).out

\* ------------------------------------------------------------------------
\* Size guard (pdf.go 109-136)
\* ------------------------------------------------------------------------
\* mutant of DeclaredTooLarge: the ceiling itself is rejected
DeclaredTooLargeAtCeiling(contentLength) == contentLength >= maxPDFSize

\* line 111
DeclaredTooLarge(contentLength) == contentLength > maxPDFSize

\* mutant of LimitedLen: the limit is maxPDFSize, without the extra byte
LimitedLenNoExtraByte(streamLen) == Min2(streamLen, maxPDFSize)

\* mutant of LimitedLen: the stream is read without io.LimitReader
LimitedLenUnlimited(streamLen) == streamLen

\* line 125: io.LimitReader(r, maxPDFSize+1) passes at most this many bytes
LimitedLen(streamLen) == Min2(streamLen, maxPDFSize + 1)

\* mutant of ReadFails: the error of ReadFrom is ignored
ReadFailsIgnored(in) == FALSE

\* line 128: ReadFrom fails when r fails before the limit is reached
ReadFails(in) == in.streamErr /\ in.streamLen < maxPDFSize + 1

\* mutant of ActualTooLarge: the check is off by one byte
ActualTooLargeOffByOne(len) == len > maxPDFSize + 1

\* line 134
ActualTooLarge(len) == len > maxPDFSize

\* mutant of ParseFails: the error of pdf.NewReader is ignored
ParseFailsIgnored(in) == FALSE

\* line 142: pdf.NewReader returned an error
ParseFails(in) == ~in.parseOK

\* mutant of NoPages: the empty document is not short-circuited
NoPagesNever(n) == FALSE

\* line 147
NoPages(n) == n = 0

\* ------------------------------------------------------------------------
\* Page scheduler (pdf.go 152-173)
\* ------------------------------------------------------------------------
\* mutant of NumWorkersOf: maxConcurrency is not applied
NumWorkersNoCeiling(procs, n) == Min2(procs, n)

\* mutant of NumWorkersOf: the number of pages is left out of the minimum
NumWorkersIgnoringPages(procs, n) == Min2(procs, maxConcurrency)

\* line 152
NumWorkersOf(procs, n) == Min3(procs, n, maxConcurrency)

\* mutant of WaitGroupDelta: the calling goroutine is counted as well
WaitGroupDeltaOneMore(n) == n + 1

\* line 167: wg.Add(numWorkers)
WaitGroupDelta(n) == n

\* mutant of Count: the extra pages are not handed out
CountNoExtra(idx) == pagesPerWorker

\* mutant of Count: the extra pages go to the last workers
CountExtraToLast(idx) ==
    IF idx >= numWorkers - extraPages THEN pagesPerWorker + 1 ELSE pagesPerWorker

\* lines 170-173: number of pages of worker idx
Count(idx) == IF idx < extraPages THEN pagesPerWorker + 1 ELSE pagesPerWorker

\* ------------------------------------------------------------------------
\* Worker and assembler decisions (pdf.go 175-215)
\* ------------------------------------------------------------------------
\* line 182
WorkerWritesSeparator(pageNum, pageStart) == pageNum > pageStart

\* mutant of NextPageNum: a page whose lookup failed is looked up once more
NextPageNumRetry(pageNum) ==
    IF input.doc[pageNum].null /\ lookups[pageNum] = 0 THEN pageNum ELSE pageNum + 1

\* line 181: pageNum++
NextPageNum(pageNum) == pageNum + 1

\* mutant of WritePageNotFound: nothing is written for the page
WritePageNotFoundSilent(workerBuf) == workerBuf

\* line 189: the marker written for a page whose lookup failed
WritePageNotFound(workerBuf) == Append(workerBuf, PageNotFound)

\* mutants of StoreSlot: slots filled from the far end / in completion order
StoreSlotReversed(workerIdx) == numWorkers - 1 - workerIdx

StoreSlotShared(workerIdx) == 0

StoreSlotNeighbour(workerIdx) == (workerIdx + 1) % numWorkers

StoreSlotByCompletion(workerIdx) ==
    Cardinality({v \in 0 .. maxConcurrency - 1 : wpc[v] \in {"defer", "done"}})

\* line 195: the slot a worker stores its buffer into
StoreSlot(workerIdx) == workerIdx

\* mutant of WaitReturns: no barrier
WaitReturnsAlways == TRUE

\* line 201: wg.Wait returns
WaitReturns == wg = 0

\* mutant of AssemblerSeparator: the blank lines around the rule are missing
AssemblerSeparatorShort == "\n---\n"

\* line 210: the separator the assembler writes between two range buffers
AssemblerSeparator == "\n\n---\n\n"

\* mutant of AssemblerWritesSeparator: a separator before the first buffer too
AssemblerWritesSeparatorAlways(idx, workerBuf) == Len(workerBuf) > 0

\* line 209
AssemblerWritesSeparator(idx, workerBuf) == idx > 0 /\ Len(workerBuf) > 0

\* ------------------------------------------------------------------------
\* Initial state: a call of convertPDFToMarkdown is about to start
\* ------------------------------------------------------------------------
CallStart ==
    /\ pc = "start"
    /\ buf = NoBuf
    /\ readStarted = FALSE
    /\ bytesRead = 0
    /\ parsed = FALSE
    /\ gomaxprocs = 0
    /\ numPages = 0 /\ numWorkers = 0 /\ pagesPerWorker = 0 /\ extraPages = 0
    /\ page = 0 /\ i = 0 /\ wg = 0
    /\ wpc = [w \in Workers |-> "none"]
    /\ wStart = [w \in Workers |-> 0]
    /\ wEnd = [w \in Workers |-> 0]
    /\ wPageNum = [w \in Workers |-> 0]
    /\ wBuf = [w \in Workers |-> <<>>]
    /\ workerBuffers = [w \in Workers |-> NilSlot]
    /\ lookups = <<>>
    /\ pool = NoPool
    /\ result = <<>>
    /\ err = ErrNil

Init ==
    /\ input \in Inputs
    /\ run = 1 /\ prevResult = <<>> /\ prevErr = ErrNil
    /\ prevNumWorkers = 0 /\ fetch = NoFetch /\ cleanup = NoCleanup /\ NoPoolCalls
    /\ CallStart
    /\ ept = NoText

\* ------------------------------------------------------------------------
\* The calling goroutine (pdf.go 109-218)
\* ------------------------------------------------------------------------
\* mutant of Return: the deferred Reset and Put are missing
ReturnWithoutPut(res, e) ==
    /\ pc' = "done"
    /\ result' = res
    /\ err' = e
    /\ UNCHANGED <<buf, pool>>

\* mutant of Return: the deferred function runs on every return, also on
\* the one of line 112
ReturnPutAlways(res, e) ==
    /\ pc' = "done"
    /\ result' = res
    /\ err' = e
    /\ buf' = NoBuf
    /\ pool' = [pool EXCEPT !.pdfPut = @ + 1]

\* a return statement; the deferred function of lines 118-121 resets the
\* ingestion buffer and puts it back when it was acquired
Return(res, e) ==
    /\ pc' = "done"
    /\ result' = res
    /\ err' = e
    /\ buf' = NoBuf
    /\ pool' = IF buf.held THEN [pool EXCEPT !.pdfPut = @ + 1] ELSE pool

\* lines 111-113
CheckContentLength ==
    /\ pc = "start"
    /\ IF DeclaredTooLarge(input.contentLength)
       THEN Return(<<>>, ErrDeclaredTooLarge(input.contentLength))
       ELSE pc' = "get" /\ UNCHANGED <<result, err, buf, pool>>
    /\ UNCHANGED <<fetch, cleanup, prevNumWorkers, poolVars, ept, gomaxprocs, input, run, prevResult, prevErr, readStarted, bytesRead, parsed, numPages,
                   numWorkers, pagesPerWorker, extraPages, page, i, wg, wpc,
                   wStart, wEnd, wPageNum, wBuf, workerBuffers, lookups>>

\* lines 116-121: pdfBufferPool.Get, Reset, defer
AcquireBuffer ==
    /\ pc = "get"
    /\ buf' = [held |-> TRUE, len |-> 0]
    /\ pool' = [pool EXCEPT !.pdfGet = @ + 1]
    /\ pc' = "read"
    /\ UNCHANGED <<fetch, cleanup, prevNumWorkers, poolVars, ept, gomaxprocs, input, run, prevResult, prevErr, readStarted, bytesRead, parsed, numPages,
                   numWorkers, pagesPerWorker, extraPages, page, i, wg, wpc,
                   wStart, wEnd, wPageNum, wBuf, workerBuffers, lookups,
                   result, err>>

\* lines 125-131: buf.ReadFrom(io.LimitReader(r, maxPDFSize+1))
ReadFrom ==
    /\ pc = "read"
    /\ readStarted' = TRUE
    /\ bytesRead' = LimitedLen(input.streamLen)
    /\ IF ReadFails(input)
       THEN Return(<<>>, ErrRead)
       ELSE /\ buf' = [buf EXCEPT !.len = LimitedLen(input.streamLen)]
            /\ pc' = "checkLen"
            /\ UNCHANGED <<result, err, pool>>
    /\ UNCHANGED <<fetch, cleanup, prevNumWorkers, poolVars, ept, gomaxprocs, input, run, prevResult, prevErr, parsed, numPages,
                   numWorkers, pagesPerWorker, extraPages, page, i, wg, wpc,
                   wStart, wEnd, wPageNum, wBuf, workerBuffers, lookups>>

\* lines 134-136
CheckLen ==
    /\ pc = "checkLen"
    /\ IF ActualTooLarge(buf.len)
       THEN Return(<<>>, ErrActualTooLarge)
       ELSE pc' = "parse" /\ UNCHANGED <<result, err, buf, pool>>
    /\ UNCHANGED <<fetch, cleanup, prevNumWorkers, poolVars, ept, gomaxprocs, input, run, prevResult, prevErr, readStarted, bytesRead, parsed, numPages,
                   numWorkers, pagesPerWorker, extraPages, page, i, wg, wpc,
                   wStart, wEnd, wPageNum, wBuf, workerBuffers, lookups>>

\* lines 138-144: pdf.NewReader
ParsePDF ==
    /\ pc = "parse"
    /\ parsed' = TRUE
    /\ IF ParseFails(input)
       THEN Return(<<>>, ErrParse)
       ELSE pc' = "numPages" /\ UNCHANGED <<result, err, buf, pool>>
    /\ UNCHANGED <<fetch, cleanup, prevNumWorkers, poolVars, ept, gomaxprocs, input, run, prevResult, prevErr, readStarted, bytesRead, numPages,
                   numWorkers, pagesPerWorker, extraPages, page, i, wg, wpc,
                   wStart, wEnd, wPageNum, wBuf, workerBuffers, lookups>>

\* lines 146-149
CheckNumPages ==
    /\ pc = "numPages"
    /\ numPages' = Len(input.doc)
    /\ lookups' = [p \in 1 .. Len(input.doc) |-> 0]
    /\ IF NoPages(Len(input.doc))
       THEN Return(<<>>, ErrNil)
       ELSE pc' = "workers" /\ UNCHANGED <<result, err, buf, pool>>
    /\ UNCHANGED <<fetch, cleanup, prevNumWorkers, poolVars, ept, gomaxprocs, input, run, prevResult, prevErr, readStarted, bytesRead, parsed,
                   numWorkers, pagesPerWorker, extraPages, page, i, wg, wpc,
                   wStart, wEnd, wPageNum, wBuf, workerBuffers>>

\* lines 152-167; procs is runtime.GOMAXPROCS(0)
ComputeWorkers(procs) ==
    /\ pc = "workers"
    /\ gomaxprocs' = procs
    /\ LET n == NumWorkersOf(procs, numPages)
       IN  /\ numWorkers' = n
           /\ IF n = 0
              THEN \* integer divide by zero at line 156
                   /\ pc' = "panic"
                   /\ UNCHANGED <<pagesPerWorker, extraPages, wg, page, i>>
              ELSE /\ pagesPerWorker' = numPages \div n
                   /\ extraPages' = numPages % n
                   /\ wg' = wg + WaitGroupDelta(n)
                   /\ page' = 1
                   /\ i' = 0
                   /\ pc' = "launch"
    /\ UNCHANGED <<fetch, cleanup, prevNumWorkers, poolVars, ept, input, run, prevResult, prevErr, buf, readStarted, bytesRead, parsed,
                   numPages, wpc, wStart, wEnd, wPageNum, wBuf, workerBuffers,
                   lookups, pool, result, err>>

\* lines 169-199: one iteration of the launch loop
Launch ==
    /\ pc = "launch"
    /\ i < numWorkers
    /\ wpc' = [wpc EXCEPT ![i] = "get"]
    /\ wStart' = [wStart EXCEPT ![i] = page]
    /\ wEnd' = [wEnd EXCEPT ![i] = page + Count(i)]
    /\ page' = page + Count(i)
    /\ i' = i + 1
    /\ pc' = IF i + 1 < numWorkers THEN "launch" ELSE "wait"
    /\ UNCHANGED <<fetch, cleanup, prevNumWorkers, poolVars, ept, gomaxprocs, input, run, prevResult, prevErr, buf, readStarted, bytesRead, parsed,
                   numPages, numWorkers, pagesPerWorker, extraPages, wg,
                   wPageNum, wBuf, workerBuffers, lookups, pool, result, err>>

\* lines 201-205: wg.Wait, then the result builder is created
Wait ==
    /\ pc = "wait"
    /\ WaitReturns
    /\ pc' = "assemble"
    /\ i' = 0
    /\ result' = <<>>
    /\ UNCHANGED <<fetch, cleanup, prevNumWorkers, poolVars, ept, gomaxprocs, input, run, prevResult, prevErr, buf, readStarted, bytesRead, parsed,
                   numPages, numWorkers, pagesPerWorker, extraPages, page, wg,
                   wpc, wStart, wEnd, wPageNum, wBuf, workerBuffers, lookups,
                   pool, err>>

\* lines 207-215: one iteration of the assembly loop; a nil slot makes
\* workerBuf.Len() panic
Assemble ==
    /\ pc = "assemble"
    /\ i < numWorkers
    /\ IF ~workerBuffers[i].set
       THEN /\ pc' = "panic"
            /\ UNCHANGED <<result, workerBuffers, pool, i>>
       ELSE LET workerBuf == workerBuffers[i].data
                sep == IF AssemblerWritesSeparator(i, workerBuf)
                       THEN <<AssemblerSeparator>> ELSE <<>>
            IN  /\ result' = result \o sep \o workerBuf
                /\ workerBuffers' = [workerBuffers EXCEPT ![i].data = <<>>]
                /\ pool' = [pool EXCEPT !.pagePut = @ + 1]
                /\ i' = i + 1
                /\ pc' = "assemble"
    /\ UNCHANGED <<fetch, cleanup, prevNumWorkers, poolVars, ept, gomaxprocs, input, run, prevResult, prevErr, buf, readStarted, bytesRead, parsed,
                   numPages, numWorkers, pagesPerWorker, extraPages, page, wg,
                   wpc, wStart, wEnd, wPageNum, wBuf, lookups, err>>

\* line 217 and the deferred function
ReturnResult ==
    /\ pc = "assemble"
    /\ i >= numWorkers
    /\ Return(result, ErrNil)
    /\ UNCHANGED <<fetch, cleanup, prevNumWorkers, poolVars, ept, gomaxprocs, input, run, prevResult, prevErr, readStarted, bytesRead, parsed, numPages,
                   numWorkers, pagesPerWorker, extraPages, page, i, wg, wpc,
                   wStart, wEnd, wPageNum, wBuf, workerBuffers, lookups>>

\* ------------------------------------------------------------------------
\* The worker goroutines (pdf.go 175-196)
\* ------------------------------------------------------------------------
\* lines 177-181: pageBufferPool.Get, Reset, pageNum := pageStart
WorkerGet(w) ==
    /\ wpc[w] = "get"
    /\ wBuf' = [wBuf EXCEPT ![w] = <<>>]
    /\ pool' = [pool EXCEPT !.pageGet = @ + 1]
    /\ wPageNum' = [wPageNum EXCEPT ![w] = wStart[w]]
    /\ wpc' = [wpc EXCEPT ![w] = "loop"]
    /\ UNCHANGED <<fetch, cleanup, prevNumWorkers, poolVars, ept, gomaxprocs, input, run, prevResult, prevErr, pc, buf, readStarted, bytesRead, parsed,
                   numPages, numWorkers, pagesPerWorker, extraPages, page, i,
                   wg, wStart, wEnd, workerBuffers, lookups, result, err>>

\* lines 181-193: one iteration of the page loop
WorkerPage(w) ==
    /\ wpc[w] = "loop"
    /\ wPageNum[w] < wEnd[w]
    /\ LET pageNum == wPageNum[w]
           pg == input.doc[pageNum]
           b1 == IF WorkerWritesSeparator(pageNum, wStart[w])
                 THEN Append(wBuf[w], PageSeparator) ELSE wBuf[w]
           b2 == Append(b1, PageHeader(pageNum))
           b3 == IF pg.null THEN WritePageNotFound(b2)
                 ELSE extractPageText(pg, b2)
       IN  /\ wBuf' = [wBuf EXCEPT ![w] = b3]
           /\ lookups' = [lookups EXCEPT ![pageNum] = @ + 1]
           /\ wPageNum' = [wPageNum EXCEPT ![w] = NextPageNum(pageNum)]
    /\ UNCHANGED <<fetch, cleanup, prevNumWorkers, poolVars, ept, gomaxprocs, input, run, prevResult, prevErr, pc, buf, readStarted, bytesRead, parsed,
                   numPages, numWorkers, pagesPerWorker, extraPages, page, i,
                   wg, wpc, wStart, wEnd, workerBuffers, pool, result, err>>

\* line 195
WorkerStore(w) ==
    /\ wpc[w] = "loop"
    /\ wPageNum[w] >= wEnd[w]
    /\ workerBuffers' = [workerBuffers EXCEPT
                            ![StoreSlot(w)] = [set |-> TRUE, data |-> wBuf[w]]]
    /\ wpc' = [wpc EXCEPT ![w] = "defer"]
    /\ UNCHANGED <<fetch, cleanup, prevNumWorkers, poolVars, ept, gomaxprocs, input, run, prevResult, prevErr, pc, buf, readStarted, bytesRead, parsed,
                   numPages, numWorkers, pagesPerWorker, extraPages, page, i,
                   wg, wStart, wEnd, wPageNum, wBuf, lookups, pool, result, err>>

\* line 176: the deferred wg.Done
WorkerDone(w) ==
    /\ wpc[w] = "defer"
    /\ wg' = wg - 1
    /\ wpc' = [wpc EXCEPT ![w] = "done"]
    /\ UNCHANGED <<fetch, cleanup, prevNumWorkers, poolVars, ept, gomaxprocs, input, run, prevResult, prevErr, pc, buf, readStarted, bytesRead, parsed,
                   numPages, numWorkers, pagesPerWorker, extraPages, page, i,
                   wStart, wEnd, wPageNum, wBuf, workerBuffers, lookups, pool,
                   result, err>>

\* ------------------------------------------------------------------------
\* Specifications
\* ------------------------------------------------------------------------
Next ==
    \/ CheckContentLength
    \/ AcquireBuffer
    \/ ReadFrom
    \/ CheckLen
    \/ ParsePDF
    \/ CheckNumPages
    \/ \E procs \in 1 .. MaxProcs : ComputeWorkers(procs)
    \/ Launch
    \/ Wait
    \/ Assemble
    \/ ReturnResult
    \/ \E w \in Workers : WorkerGet(w)
    \/ \E w \in Workers : WorkerPage(w)
    \/ \E w \in Workers : WorkerStore(w)
    \/ \E w \in Workers : WorkerDone(w)

Spec == Init /\ [][Next]_vars

\* Two calls in a row on the same input: when the first call has returned,
\* its outcome is remembered and the second call starts.
SecondCall ==
    /\ pc = "done"
    /\ run = 1
    /\ run' = 2
    /\ prevResult' = result
    /\ prevErr' = err
    /\ pc' = "start"
    /\ buf' = NoBuf
    /\ readStarted' = FALSE
    /\ bytesRead' = 0
    /\ parsed' = FALSE
    /\ gomaxprocs' = 0
    /\ numPages' = 0 /\ numWorkers' = 0 /\ pagesPerWorker' = 0 /\ extraPages' = 0
    /\ page' = 0 /\ i' = 0 /\ wg' = 0
    /\ wpc' = [w \in Workers |-> "none"]
    /\ wStart' = [w \in Workers |-> 0]
    /\ wEnd' = [w \in Workers |-> 0]
    /\ wPageNum' = [w \in Workers |-> 0]
    /\ wBuf' = [w \in Workers |-> <<>>]
    /\ workerBuffers' = [w \in Workers |-> NilSlot]
    /\ lookups' = <<>>
    /\ pool' = NoPool
    /\ result' = <<>>
    /\ err' = ErrNil
    /\ prevNumWorkers' = numWorkers
    /\ UNCHANGED <<input, ept, fetch, cleanup, poolVars>>

NextTwice == Next \/ SecondCall

SpecTwice == Init /\ [][NextTwice]_vars

\* One call under fair scheduling: the Go scheduler runs a goroutine that
\* can take a step, so the call does not stop while a step is possible.
\* The documents are those of Spec; the stream is short, empty or too long.
InitFair ==
    /\ Init
    /\ input.contentLength \in {-1, maxPDFSize + 1}
    /\ input.streamLen \in {0, 5, maxPDFSize + 1}

SpecFair == InitFair /\ [][Next]_vars /\ WF_vars(Next)

\* The page scheduler alone, for page counts and GOMAXPROCS values on both
\* sides of maxConcurrency: the call has parsed a document of n pages, and
\* the calling goroutine runs lines 146-199 before any worker is scheduled.
SchedInputs ==
    {[contentLength |-> -1, streamLen |-> 5, streamErr |-> FALSE, parseOK |-> TRUE,
      doc |-> [p \in 1 .. n |-> EmptyPage]] : n \in 0 .. MaxSchedPages}

InitSched ==
    /\ input \in SchedInputs
    /\ run = 1 /\ prevResult = <<>> /\ prevErr = ErrNil
    /\ prevNumWorkers = 0 /\ fetch = NoFetch /\ cleanup = NoCleanup /\ NoPoolCalls
    /\ pc = "numPages"
    /\ buf = [held |-> TRUE, len |-> 5]
    /\ readStarted = TRUE
    /\ bytesRead = 5
    /\ parsed = TRUE
    /\ gomaxprocs = 0
    /\ numPages = 0 /\ numWorkers = 0 /\ pagesPerWorker = 0 /\ extraPages = 0
    /\ page = 0 /\ i = 0 /\ wg = 0
    /\ wpc = [w \in Workers |-> "none"]
    /\ wStart = [w \in Workers |-> 0]
    /\ wEnd = [w \in Workers |-> 0]
    /\ wPageNum = [w \in Workers |-> 0]
    /\ wBuf = [w \in Workers |-> <<>>]
    /\ workerBuffers = [w \in Workers |-> NilSlot]
    /\ lookups = <<>>
    /\ pool = [NoPool EXCEPT !.pdfGet = 1]
    /\ result = <<>>
    /\ err = ErrNil
    /\ ept = NoText

NextSched ==
    \/ CheckNumPages
    \/ \E procs \in 1 .. MaxSchedProcs : ComputeWorkers(procs)
    \/ Launch

SpecSched == InitSched /\ [][NextSched]_vars

\* extractPageText on its own, on the fragments of one page drawn one by
\* one: widths 0 and 2 and font sizes 4 and 10 put the gap on both sides of
\* the thresholds 1 (the floor) and 2 (0.2 * 10), and on them.
TextFrags ==
    {Frag(s, x, y, w, fs) : s \in {"a", "b"}, x \in 0 .. MaxX, y \in 0 .. MaxY,
                            w \in {0, 2}, fs \in {4, 10}}
    \cup {Frag("", x, y, 0, 10) : x \in {0, MaxX}, y \in {0, MaxY}}

InitText ==
    /\ input = [contentLength |-> -1, streamLen |-> 5, streamErr |-> FALSE,
                parseOK |-> TRUE, doc |-> <<>>]
    /\ run = 1 /\ prevResult = <<>> /\ prevErr = ErrNil
    /\ prevNumWorkers = 0 /\ fetch = NoFetch /\ cleanup = NoCleanup /\ NoPoolCalls
    /\ CallStart
    /\ \E b \in {<<>>, <<PageHeader(1)>>} :
          ept = [NoText EXCEPT !.pc = "entry", !.st.out = b]

\* lines 49-55: a page without fragments returns at once
TextEntry(empty) ==
    /\ ept.pc = "entry"
    /\ ept' = [ept EXCEPT !.pc = IF empty THEN "return" ELSE "loop"]
    /\ UNCHANGED <<fetch, cleanup, prevNumWorkers, poolVars, input, run, prevResult, prevErr, pc, buf, readStarted, bytesRead,
                   parsed, gomaxprocs, numPages, numWorkers, pagesPerWorker,
                   extraPages, page, i, wg, wpc, wStart, wEnd, wPageNum, wBuf,
                   workerBuffers, lookups, pool, result, err>>

\* lines 57-96: one iteration of the loop, on the fragment t
TextStep(t) ==
    /\ ept.pc = "loop"
    /\ ept.n < MaxFrags
    /\ ept' = [ept EXCEPT !.n = @ + 1, !.t = t, !.text = Append(@, t.S),
                          !.st = WriteFragment(ept.st, t)]
    /\ UNCHANGED <<fetch, cleanup, prevNumWorkers, poolVars, input, run, prevResult, prevErr, pc, buf, readStarted, bytesRead,
                   parsed, gomaxprocs, numPages, numWorkers, pagesPerWorker,
                   extraPages, page, i, wg, wpc, wStart, wEnd, wPageNum, wBuf,
                   workerBuffers, lookups, pool, result, err>>

\* line 97: the fragments are exhausted
TextReturn ==
    /\ ept.pc = "loop"
    /\ ept.n >= 1
    /\ ept' = [ept EXCEPT !.pc = "return"]
    /\ UNCHANGED <<fetch, cleanup, prevNumWorkers, poolVars, input, run, prevResult, prevErr, pc, buf, readStarted, bytesRead,
                   parsed, gomaxprocs, numPages, numWorkers, pagesPerWorker,
                   extraPages, page, i, wg, wpc, wStart, wEnd, wPageNum, wBuf,
                   workerBuffers, lookups, pool, result, err>>

NextText ==
    \/ \E empty \in BOOLEAN : TextEntry(empty)
    \/ \E t \in TextFrags : TextStep(t)
    \/ TextReturn

SpecText == InitText /\ [][NextText]_vars

\* ------------------------------------------------------------------------
\* Strings: strings.ToLower and strings.Contains, byte by byte
\* ------------------------------------------------------------------------
UpperCase == "ABCDEFGHIJKLMNOPQRSTUVWXYZ"

LowerCase == "abcdefghijklmnopqrstuvwxyz"

CharAt(s, k) == SubSeq(s, k, k)

ToLowerChar(c) ==
    IF \E k \in 1 .. 26 : CharAt(UpperCase, k) = c
    THEN CharAt(LowerCase, CHOOSE k \in 1 .. 26 : CharAt(UpperCase, k) = c)
    ELSE c

RECURSIVE ToLower(_)
ToLower(s) ==
    IF Len(s) = 0 THEN ""
    ELSE ToLowerChar(CharAt(s, 1)) \o ToLower(SubSeq(s, 2, Len(s)))

Contains(s, substr) ==
    \E k \in 1 .. Len(s) - Len(substr) + 1 : SubSeq(s, k, k + Len(substr) - 1) = substr

\* n copies of s
RECURSIVE Repeat(_, _)
Repeat(s, n) ==
    IF n = 0 THEN ""
    ELSE IF n % 2 = 0 THEN LET h == Repeat(s, n \div 2) IN h \o h
    ELSE s \o Repeat(s, n - 1)

\* ------------------------------------------------------------------------
\* FetchAndConvert (unnamed/part_000) and handleWebfetch (cmd/webfetch-mcp)
\* ------------------------------------------------------------------------
\* url.Parse on the URLs of the model: the error, Scheme and Host it yields
urlParse(rawURL) ==
    CASE rawURL = "http://example.com/page" ->
             [err |-> FALSE, Scheme |-> "http", Host |-> "example.com"]
      [] rawURL = "https://example.com/doc.pdf" ->
             [err |-> FALSE, Scheme |-> "https", Host |-> "example.com"]
      [] rawURL = "ftp://example.com/file" ->
             [err |-> FALSE, Scheme |-> "ftp", Host |-> "example.com"]
      [] rawURL = "http:///page" ->
             [err |-> FALSE, Scheme |-> "http", Host |-> ""]
      [] rawURL = "mailto:user@example.com" ->
             [err |-> FALSE, Scheme |-> "mailto", Host |-> ""]
      [] rawURL = "//example.com/page" ->
             [err |-> FALSE, Scheme |-> "", Host |-> "example.com"]
      [] rawURL = "example.com/page" ->
             [err |-> FALSE, Scheme |-> "", Host |-> ""]
      [] rawURL = "" ->
             [err |-> FALSE, Scheme |-> "", Host |-> ""]
      [] rawURL = "://example.com" ->
             [err |-> TRUE, Scheme |-> "", Host |-> ""]
      [] rawURL = "http://exa mple.com" ->
             [err |-> TRUE, Scheme |-> "", Host |-> ""]

URLs == {"http://example.com/page", "https://example.com/doc.pdf",
         "ftp://example.com/file", "http:///page", "mailto:user@example.com",
         "//example.com/page", "example.com/page", "", "://example.com",
         "http://exa mple.com"}

\* time.ParseDuration on the timeouts of the model
Timeouts == {"", "10s", "abc"}

ParseDurationFails(timeout) == timeout \notin {"10s"}

\* http.Client.Do cannot fetch a scheme other than http and https
SchemeFetchable(rawURL) == urlParse(rawURL).Scheme \in {"http", "https"}

ErrURLRequired == <<"URL is required">>

ErrTimeoutFormat == <<"invalid timeout format: ", "time: invalid duration">>

ErrInvalidURLParse == <<"invalid URL: ", "parse error">>

ErrInvalidURLMissing == <<"invalid URL: ", "missing scheme or host">>

ErrCreateRequest == <<"failed to create request: ", "net/http: nil Context">>

ErrFetch == <<"failed to fetch URL: ", "transport error">>

ErrStatus(code) == <<"unexpected status code: ", ToString(code)>>

ErrUnsupported(contentType) ==
    <<"unsupported content type: ", contentType, " (expected HTML or PDF)">>

ErrConvertHTML == <<"failed to convert HTML to Markdown: ", "convert error">>

TruncatedSuffix == "\n\n... (truncated)"

\* mutant of URLInvalid: only the scheme is required
URLInvalidSchemeOnly(parsedURL) == parsedURL.Scheme = ""

\* part_000 line 24
URLInvalid(parsedURL) == parsedURL.Scheme = "" \/ parsedURL.Host = ""

\* mutant of StatusNotOK: every 2xx status is accepted
StatusNotOKOutside2xx(code) == code \notin 200 .. 299

\* part_000 line 51
StatusNotOK(code) == code # 200

\* pdf.go lines 41-44
isPDFContentType(contentType) == Contains(ToLower(contentType), "application/pdf")

\* html.go lines 55-58
isHTMLContentType(contentType) ==
    LET ct == ToLower(contentType)
    IN  Contains(ct, "text/html") \/ Contains(ct, "application/xhtml+xml")

\* mutant of MaxContentTokensOf: a limit of 0 or less is taken as given
MaxContentTokensAsGiven(MaxContentTokens) == MaxContentTokens

\* mcp.go lines 71-74
MaxContentTokensOf(MaxContentTokens) ==
    IF MaxContentTokens > 0 THEN MaxContentTokens ELSE defaultMaxContentTokens

\* mutant of Truncates: content of exactly the limit is truncated too
TruncatesAtLimit(maxContentTokens, markdown) ==
    maxContentTokens > 0 /\ Len(markdown) >= maxContentTokens

\* mcp.go line 87
Truncates(maxContentTokens, markdown) ==
    maxContentTokens > 0 /\ Len(markdown) > maxContentTokens

\* mcp.go line 88
Truncate(maxContentTokens, markdown) ==
    SubSeq(markdown, 1, maxContentTokens) \o TruncatedSuffix

\* the arguments of a call: FetchAndConvert called directly (ctx may be
\* nil), or handleWebfetch called with a webfetchToolInput
FetchInputs ==
    {[NoFetch EXCEPT !.pc = "validate", !.direct = TRUE, !.URL = u, !.ctxNil = c] :
        u \in URLs, c \in BOOLEAN}
    \cup
    {[NoFetch EXCEPT !.pc = "handle", !.URL = u, !.Timeout = t, !.MaxContentTokens = m] :
        u \in URLs, t \in Timeouts, m \in -1 .. MaxTokens}

\* what the server answers: status, Content-Type, advertised Content-Length
StatusCodes == {200, 204, 404, 500}

ContentTypes ==
    {"application/pdf", "application/pdf; charset=binary", "APPLICATION/PDF",
     "text/html, application/pdf", "text/html", "text/html; charset=utf-8",
     "Text/HTML", "application/xhtml+xml", "application/json", "text/plain", ""}

AdvertisedLengths == {-1, 5, 200000000}

Responses ==
    [StatusCode : StatusCodes, ContentType : ContentTypes,
     ContentLength : AdvertisedLengths]

\* the body of a PDF response, as convertPDFToMarkdown finds it
PdfBodies ==
    {[streamLen |-> 5, streamErr |-> FALSE, parseOK |-> TRUE,
      doc |-> <<HelloPage, NullPage>>],
     [streamLen |-> 5, streamErr |-> FALSE, parseOK |-> FALSE, doc |-> <<>>]}

\* what htmlConverter.ConvertReader makes of an HTML body: an error, or
\* Markdown of a length below, at and above the limits
HtmlOutcomes ==
    {[ok |-> FALSE, out |-> ""]}
    \cup {[ok |-> TRUE, out |-> SubSeq("abcdefghij", 1, n)] : n \in 0 .. MaxTokens + 1}
    \cup {[ok |-> TRUE, out |-> Repeat("ab", defaultMaxContentTokens \div 2) \o tail] :
             tail \in {"", "c"}}

NoInput == [contentLength |-> -1, streamLen |-> 0, streamErr |-> FALSE,
            parseOK |-> FALSE, doc |-> <<>>]

InitFetch ==
    /\ fetch \in FetchInputs
    /\ input = NoInput
    /\ run = 1 /\ prevResult = <<>> /\ prevErr = ErrNil /\ prevNumWorkers = 0
    /\ pc = "idle"
    /\ buf = NoBuf
    /\ readStarted = FALSE
    /\ bytesRead = 0
    /\ parsed = FALSE
    /\ gomaxprocs = 0
    /\ numPages = 0 /\ numWorkers = 0 /\ pagesPerWorker = 0 /\ extraPages = 0
    /\ page = 0 /\ i = 0 /\ wg = 0
    /\ wpc = [w \in Workers |-> "none"]
    /\ wStart = [w \in Workers |-> 0]
    /\ wEnd = [w \in Workers |-> 0]
    /\ wPageNum = [w \in Workers |-> 0]
    /\ wBuf = [w \in Workers |-> <<>>]
    /\ workerBuffers = [w \in Workers |-> NilSlot]
    /\ lookups = <<>>
    /\ pool = NoPool
    /\ result = <<>>
    /\ err = ErrNil
    /\ ept = NoText
    /\ cleanup = NoCleanup
    /\ NoPoolCalls

\* FetchAndConvert returns "" and the error e
FetchFail(e) == [fetch EXCEPT !.pc = "fcDone", !.markdown = "", !.err = e]

\* handleWebfetch returns a tool error with the text e
HandleFail(e) == [fetch EXCEPT !.pc = "returned", !.text = Bytes(e), !.isError = TRUE]

\* mcp.go lines 46-76: URL and timeout checks, the limit, the call
HandleWebfetch ==
    /\ fetch.pc = "handle"
    /\ fetch' =
          IF fetch.URL = "" THEN HandleFail(ErrURLRequired)
          ELSE IF fetch.Timeout # "" /\ ParseDurationFails(fetch.Timeout)
          THEN HandleFail(ErrTimeoutFormat)
          ELSE [fetch EXCEPT !.maxContentTokens = MaxContentTokensOf(fetch.MaxContentTokens),
                             !.pc = "validate"]
    /\ UNCHANGED <<pdfVars, twiceVars, ept, cleanup, poolVars>>

\* part_000 lines 19-26
ValidateURL ==
    /\ fetch.pc = "validate"
    /\ LET parsedURL == urlParse(fetch.URL)
       IN  fetch' =
              IF parsedURL.err THEN FetchFail(ErrInvalidURLParse)
              ELSE IF URLInvalid(parsedURL) THEN FetchFail(ErrInvalidURLMissing)
              ELSE [fetch EXCEPT !.pc = "request"]
    /\ UNCHANGED <<pdfVars, twiceVars, ept, cleanup, poolVars>>

\* part_000 lines 28-41: http.NewRequestWithContext fails on a nil context
CreateRequest ==
    /\ fetch.pc = "request"
    /\ fetch' =
          IF fetch.ctxNil THEN FetchFail(ErrCreateRequest)
          ELSE [fetch EXCEPT !.requestCreated = TRUE, !.pc = "do"]
    /\ UNCHANGED <<pdfVars, twiceVars, ept, cleanup, poolVars>>

\* part_000 lines 43-48: client.Do; r is the response, NoResp when the
\* transport fails (no connection, timeout)
Do(r) ==
    /\ fetch.pc = "do"
    /\ fetch' =
          IF r = NoResp \/ ~SchemeFetchable(fetch.URL)
          THEN [FetchFail(ErrFetch) EXCEPT !.requestSent = TRUE]
          ELSE [fetch EXCEPT !.requestSent = TRUE, !.resp = r, !.pc = "status"]
    /\ UNCHANGED <<pdfVars, twiceVars, ept, cleanup, poolVars>>

\* part_000 lines 50-53
CheckStatus ==
    /\ fetch.pc = "status"
    /\ fetch' =
          IF StatusNotOK(fetch.resp.StatusCode)
          THEN FetchFail(ErrStatus(fetch.resp.StatusCode))
          ELSE [fetch EXCEPT !.pc = "route"]
    /\ UNCHANGED <<pdfVars, twiceVars, ept, cleanup, poolVars>>

\* part_000 lines 55-66: the converter is chosen by the content type; for a
\* PDF, convertPDFToMarkdown(resp.Body, resp.ContentLength) starts on body
Route(body) ==
    /\ fetch.pc = "route"
    /\ pc = "idle"
    /\ LET contentType == fetch.resp.ContentType
       IN  IF isPDFContentType(contentType)
           THEN /\ fetch' = [fetch EXCEPT !.pc = "pdf", !.converter = "pdf",
                                          !.pdfContentLength = fetch.resp.ContentLength]
                /\ input' = [contentLength |-> fetch.resp.ContentLength,
                             streamLen |-> body.streamLen, streamErr |-> body.streamErr,
                             parseOK |-> body.parseOK, doc |-> body.doc]
                /\ pc' = "start"
           ELSE /\ fetch' = IF isHTMLContentType(contentType)
                            THEN [fetch EXCEPT !.pc = "html", !.converter = "html"]
                            ELSE FetchFail(ErrUnsupported(contentType))
                /\ UNCHANGED <<input, pc>>
    /\ UNCHANGED <<buf, readStarted, bytesRead, parsed, gomaxprocs, numPages,
                   numWorkers, pagesPerWorker, extraPages, page, i, wg, wpc, wStart,
                   wEnd, wPageNum, wBuf, workerBuffers, lookups, pool, result, err>>
    /\ UNCHANGED <<twiceVars, ept, cleanup, poolVars>>

\* part_000 line 59: convertPDFToMarkdown has returned
PDFReturn ==
    /\ fetch.pc = "pdf"
    /\ pc = "done"
    /\ fetch' = [fetch EXCEPT !.pc = "fcDone", !.markdown = Bytes(result), !.err = err,
                              !.bodyRead = readStarted]
    /\ UNCHANGED <<pdfVars, twiceVars, ept, cleanup, poolVars>>

\* part_000 line 63, html.go lines 62-73: convertHTMLToMarkdown
ConvertHTML(outcome) ==
    /\ fetch.pc = "html"
    /\ fetch' =
          IF ~outcome.ok
          THEN [FetchFail(ErrConvertHTML) EXCEPT !.bodyRead = TRUE]
          ELSE [fetch EXCEPT !.pc = "fcDone", !.markdown = outcome.out, !.bodyRead = TRUE]
    /\ UNCHANGED <<pdfVars, twiceVars, ept, cleanup, poolVars>>

\* mcp.go lines 77-95: the error as a tool error, or the content, truncated
HandleResult ==
    /\ fetch.pc = "fcDone"
    /\ ~fetch.direct
    /\ fetch' =
          IF fetch.err # ErrNil THEN HandleFail(fetch.err)
          ELSE [fetch EXCEPT
                   !.pc = "returned",
                   !.text = IF Truncates(fetch.maxContentTokens, fetch.markdown)
                            THEN Truncate(fetch.maxContentTokens, fetch.markdown)
                            ELSE fetch.markdown]
    /\ UNCHANGED <<pdfVars, twiceVars, ept, cleanup, poolVars>>

NextFetch ==
    \/ HandleWebfetch
    \/ ValidateURL
    \/ CreateRequest
    \/ \E r \in Responses \cup {NoResp} : Do(r)
    \/ CheckStatus
    \/ \E body \in PdfBodies : Route(body)
    \/ PDFReturn
    \/ \E outcome \in HtmlOutcomes : ConvertHTML(outcome)
    \/ HandleResult
    \/ Next

SpecFetch == InitFetch /\ [][NextFetch]_vars

\* ------------------------------------------------------------------------
\* cleanupMarkdown (fetcher.go 129-149)
\* ------------------------------------------------------------------------
\* unicode.IsSpace on the bytes of the model
IsSpace(c) == c \in {" ", "\t", "\n", "\r"}

\* strings.Split(s, "\n"): cur is the piece under construction
RECURSIVE SplitLines(_, _)
SplitLines(s, cur) ==
    IF Len(s) = 0 THEN <<cur>>
    ELSE IF CharAt(s, 1) = "\n" THEN <<cur>> \o SplitLines(SubSeq(s, 2, Len(s)), "")
    ELSE SplitLines(SubSeq(s, 2, Len(s)), cur \o CharAt(s, 1))

RECURSIVE TrimLeft(_)
TrimLeft(s) ==
    IF Len(s) > 0 /\ IsSpace(CharAt(s, 1)) THEN TrimLeft(SubSeq(s, 2, Len(s))) ELSE s

RECURSIVE TrimRight(_)
TrimRight(s) ==
    IF Len(s) > 0 /\ IsSpace(CharAt(s, Len(s)))
    THEN TrimRight(SubSeq(s, 1, Len(s) - 1)) ELSE s

\* strings.TrimSpace
TrimSpace(s) == TrimRight(TrimLeft(s))

\* strings.Join(elems, "\n")
RECURSIVE JoinLines(_)
JoinLines(elems) ==
    IF elems = <<>> THEN ""
    ELSE IF Len(elems) = 1 THEN elems[1]
    ELSE elems[1] \o "\n" \o JoinLines(Tail(elems))

\* mutant of KeepsBlank: two blank lines in a row are allowed
KeepsBlankTwo(blankCount) == blankCount <= 2

\* line 139
KeepsBlank(blankCount) == blankCount <= 1

\* the strings over Alphabet of at most n bytes
Alphabet == {"a", "b", " ", "\n"}

RECURSIVE StringsUpTo(_)
StringsUpTo(n) ==
    IF n = 0 THEN {""}
    ELSE LET shorter == StringsUpTo(n - 1)
         IN  shorter \cup {s \o c : s \in {t \in shorter : Len(t) = n - 1}, c \in Alphabet}

Markdowns == StringsUpTo(MaxLen) \cup {"\ta\r\n\t\nb\t"}

InitCleanup ==
    /\ input = NoInput
    /\ run = 1 /\ prevResult = <<>> /\ prevErr = ErrNil
    /\ prevNumWorkers = 0 /\ fetch = NoFetch /\ NoPoolCalls
    /\ CallStart
    /\ ept = NoText
    /\ \E markdown \in Markdowns :
          cleanup = [NoCleanup EXCEPT !.pc = "split", !.markdown = markdown]

\* lines 131-133
CleanupSplit ==
    /\ cleanup.pc = "split"
    /\ cleanup' = [cleanup EXCEPT !.pc = "loop",
                                  !.lines = SplitLines(cleanup.markdown, ""),
                                  !.k = 0, !.result = <<>>, !.blankCount = 0]
    /\ UNCHANGED <<pdfVars, twiceVars, ept, fetch, poolVars>>

\* lines 135-146: one iteration of the loop
CleanupLine ==
    /\ cleanup.pc = "loop"
    /\ cleanup.k < Len(cleanup.lines)
    /\ LET line == cleanup.lines[cleanup.k + 1]
       IN  cleanup' =
              IF TrimSpace(line) = ""
              THEN [cleanup EXCEPT
                       !.k = @ + 1,
                       !.blankCount = @ + 1,
                       !.result = IF KeepsBlank(cleanup.blankCount + 1)
                                  THEN Append(@, line) ELSE @]
              ELSE [cleanup EXCEPT !.k = @ + 1, !.blankCount = 0,
                                   !.result = Append(@, line)]
    /\ UNCHANGED <<pdfVars, twiceVars, ept, fetch, poolVars>>

\* line 148
CleanupReturn ==
    /\ cleanup.pc = "loop"
    /\ cleanup.k >= Len(cleanup.lines)
    /\ cleanup' = [cleanup EXCEPT !.pc = "return",
                                  !.out = TrimSpace(JoinLines(cleanup.result))]
    /\ UNCHANGED <<pdfVars, twiceVars, ept, fetch, poolVars>>

NextCleanup ==
    \/ CleanupSplit
    \/ CleanupLine
    \/ CleanupReturn

SpecCleanup == InitCleanup /\ [][NextCleanup]_vars

\* ------------------------------------------------------------------------
\* Concurrent calls of convertPDFToMarkdown on the shared pools (pdf.go
\* 21-38, 109-218).  A pooled buffer has an identity: buffers.pdf[id] and
\* buffers.page[id] are the contents of the buffers ever allocated, and
\* pdfBufferPool[id], pageBufferPool[id] count the times buffer id lies in
\* its pool.  A piece of data is tagged with the call whose bytes it holds.
\* ------------------------------------------------------------------------
Calls == 1 .. MaxCalls

\* every call converts a document of as many pages
PoolDoc == <<EmptyPage, EmptyPage>>

PoolWorkers(n) == 0 .. n - 1

\* the pages of worker w of n, as lines 156-173 hand them out
PoolRange(n, w) ==
    LET base == Len(PoolDoc) \div n
        extra == Len(PoolDoc) % n
        start == 1 + w * base + Min2(w, extra)
        count == IF w < extra THEN base + 1 ELSE base
    IN  start .. start + count - 1

NoCall == [pc |-> "start", buf |-> 0, numWorkers |-> 0,
           wpc |-> <<>>, workerBuf |-> <<>>, workerBuffers |-> <<>>,
           i |-> 0, result |-> <<>>, err |-> ErrNil]

InitPool ==
    /\ input = NoInput
    /\ run = 1 /\ prevResult = <<>> /\ prevErr = ErrNil
    /\ prevNumWorkers = 0 /\ fetch = NoFetch /\ cleanup = NoCleanup
    /\ pc = "idle"
    /\ buf = NoBuf
    /\ readStarted = FALSE
    /\ bytesRead = 0
    /\ parsed = FALSE
    /\ gomaxprocs = 0
    /\ numPages = 0 /\ numWorkers = 0 /\ pagesPerWorker = 0 /\ extraPages = 0
    /\ page = 0 /\ i = 0 /\ wg = 0
    /\ wpc = [w \in Workers |-> "none"]
    /\ wStart = [w \in Workers |-> 0]
    /\ wEnd = [w \in Workers |-> 0]
    /\ wPageNum = [w \in Workers |-> 0]
    /\ wBuf = [w \in Workers |-> <<>>]
    /\ workerBuffers = [w \in Workers |-> NilSlot]
    /\ lookups = <<>>
    /\ pool = NoPool
    /\ result = <<>>
    /\ err = ErrNil
    /\ ept = NoText
    /\ pdfBufferPool = <<>>
    /\ pageBufferPool = <<>>
    /\ buffers = [pdf |-> <<>>, page |-> <<>>]
    /\ calls = [c \in Calls |-> NoCall]

\* mutant of PutCount: the buffer is put back twice
PutCountTwice(n) == n + 2

\* lines 120 and 214: Put adds the buffer to the pool once
PutCount(n) == n + 1

\* lines 117 and 178: Reset after Get
ResetOnGet(data) == <<>>

\* lines 119 and 213: Reset before Put
ResetBeforePut(data) == <<>>

\* the pages of range r as worker w of call c writes them: what it writes
\* comes from the Document, which lies in the ingestion buffer of the call
RECURSIVE PoolBlocks(_, _)
PoolBlocks(pages, ingested) ==
    IF pages = {} THEN <<>>
    ELSE LET p == CHOOSE q \in pages : \A r \in pages : q <= r
         IN  <<[from |-> ingested, page |-> p]>> \o PoolBlocks(pages \ {p}, ingested)

\* lines 116-117: pdfBufferPool.Get on a buffer of the pool (id in the
\* domain) or, the pool giving none, on a new one; then Reset.  The calls
\* are numbered in the order in which they get here.
PoolAcquire(c, id) ==
    /\ calls[c].pc = "start"
    /\ \A earlier \in 1 .. c - 1 : calls[earlier].pc # "start"
    /\ \/ /\ id \in DOMAIN pdfBufferPool
          /\ pdfBufferPool[id] > 0
          /\ pdfBufferPool' = [pdfBufferPool EXCEPT ![id] = @ - 1]
          /\ buffers' = [buffers EXCEPT !.pdf[id] = ResetOnGet(@)]
       \/ /\ id = Len(pdfBufferPool) + 1
          /\ pdfBufferPool' = Append(pdfBufferPool, 0)
          /\ buffers' = [buffers EXCEPT !.pdf = Append(@, ResetOnGet(<<>>))]
    /\ calls' = [calls EXCEPT ![c].pc = "read", ![c].buf = id]
    /\ UNCHANGED <<pdfVars, twiceVars, ept, fetch, cleanup, pageBufferPool>>

\* lines 125-136: the stream of call c is read into its ingestion buffer
PoolRead(c) ==
    /\ calls[c].pc = "read"
    /\ buffers' = [buffers EXCEPT !.pdf[calls[c].buf] = Append(@, c)]
    /\ calls' = [calls EXCEPT ![c].pc = "parse"]
    /\ UNCHANGED <<pdfVars, twiceVars, ept, fetch, cleanup, pdfBufferPool,
                   pageBufferPool>>

\* lines 119-121 and a return: the deferred Reset and Put; the locals of the
\* call are gone
PoolReturn(c, pcAfter, res, e) ==
    /\ buffers' = [buffers EXCEPT !.pdf[calls[c].buf] = ResetBeforePut(@)]
    /\ pdfBufferPool' = [pdfBufferPool EXCEPT ![calls[c].buf] = PutCount(@)]
    /\ calls' = [calls EXCEPT ![c] = [NoCall EXCEPT !.pc = pcAfter, !.result = res,
                                                    !.err = e]]

\* lines 138-199: the bytes parse or not; n workers are launched
PoolLaunch(c, ok, n) ==
    /\ calls[c].pc = "parse"
    /\ IF ~ok
       THEN PoolReturn(c, "done", <<>>, ErrParse)
       ELSE /\ calls' = [calls EXCEPT
                   ![c].pc = "wait",
                   ![c].numWorkers = n,
                   ![c].wpc = [w \in PoolWorkers(n) |-> "get"],
                   ![c].workerBuf = [w \in PoolWorkers(n) |-> 0],
                   ![c].workerBuffers = [w \in PoolWorkers(n) |-> 0]]
            /\ UNCHANGED <<buffers, pdfBufferPool>>
    /\ UNCHANGED <<pdfVars, twiceVars, ept, fetch, cleanup, pageBufferPool>>

\* lines 177-178: pageBufferPool.Get and Reset
PoolWorkerGet(c, w, id) ==
    /\ calls[c].pc = "wait"
    /\ w \in DOMAIN calls[c].wpc
    /\ calls[c].wpc[w] = "get"
    /\ \/ /\ id \in DOMAIN pageBufferPool
          /\ pageBufferPool[id] > 0
          /\ pageBufferPool' = [pageBufferPool EXCEPT ![id] = @ - 1]
          /\ buffers' = [buffers EXCEPT !.page[id] = ResetOnGet(@)]
       \/ /\ id = Len(pageBufferPool) + 1
          /\ pageBufferPool' = Append(pageBufferPool, 0)
          /\ buffers' = [buffers EXCEPT !.page = Append(@, ResetOnGet(<<>>))]
    /\ calls' = [calls EXCEPT ![c].wpc[w] = "loop", ![c].workerBuf[w] = id]
    /\ UNCHANGED <<pdfVars, twiceVars, ept, fetch, cleanup, pdfBufferPool>>

\* lines 181-196: the pages of the range, read from the Document, are
\* written to the buffer; the slot is filled, wg.Done
PoolWorkerPages(c, w) ==
    /\ calls[c].pc = "wait"
    /\ w \in DOMAIN calls[c].wpc
    /\ calls[c].wpc[w] = "loop"
    /\ buffers' = [buffers EXCEPT !.page[calls[c].workerBuf[w]] =
                      @ \o PoolBlocks(PoolRange(calls[c].numWorkers, w),
                                      buffers.pdf[calls[c].buf])]
    /\ calls' = [calls EXCEPT ![c].wpc[w] = "done",
                              ![c].workerBuffers[w] = calls[c].workerBuf[w]]
    /\ UNCHANGED <<pdfVars, twiceVars, ept, fetch, cleanup, pdfBufferPool,
                   pageBufferPool>>

\* line 201: wg.Wait returns when every worker is done
PoolWait(c) ==
    /\ calls[c].pc = "wait"
    /\ \A w \in DOMAIN calls[c].wpc : calls[c].wpc[w] = "done"
    /\ calls' = [calls EXCEPT ![c].pc = "assemble", ![c].i = 0]
    /\ UNCHANGED <<pdfVars, twiceVars, ept, fetch, cleanup, pdfBufferPool,
                   pageBufferPool, buffers>>

\* line 210: the separator comes from no buffer
PoolSeparator == [from |-> <<>>, page |-> 0]

\* lines 207-215: one iteration of the assembly loop: the bytes of the
\* buffer in slot i are copied to the result, then Reset and Put
PoolAssemble(c) ==
    /\ calls[c].pc = "assemble"
    /\ calls[c].i < calls[c].numWorkers
    /\ LET id == calls[c].workerBuffers[calls[c].i]
           workerBuf == buffers.page[id]
           sep == IF AssemblerWritesSeparator(calls[c].i, workerBuf)
                  THEN <<PoolSeparator>> ELSE <<>>
       IN  /\ calls' = [calls EXCEPT ![c].result = @ \o sep \o workerBuf,
                                     ![c].i = @ + 1]
           /\ buffers' = [buffers EXCEPT !.page[id] = ResetBeforePut(@)]
           /\ pageBufferPool' = [pageBufferPool EXCEPT ![id] = PutCount(@)]
    /\ UNCHANGED <<pdfVars, twiceVars, ept, fetch, cleanup, pdfBufferPool>>

\* line 217 and the deferred function
PoolReturnResult(c) ==
    /\ calls[c].pc = "assemble"
    /\ calls[c].i >= calls[c].numWorkers
    /\ PoolReturn(c, "done", calls[c].result, ErrNil)
    /\ UNCHANGED <<pdfVars, twiceVars, ept, fetch, cleanup, pageBufferPool>>

NextPool ==
    \/ \E c \in Calls, id \in 1 .. MaxCalls : PoolAcquire(c, id)
    \/ \E c \in Calls : PoolRead(c)
    \/ \E c \in Calls, ok \in BOOLEAN, n \in 1 .. Len(PoolDoc) : PoolLaunch(c, ok, n)
    \/ \E c \in Calls, w \in PoolWorkers(Len(PoolDoc)),
          id \in 1 .. MaxCalls * Len(PoolDoc) : PoolWorkerGet(c, w, id)
    \/ \E c \in Calls, w \in PoolWorkers(Len(PoolDoc)) : PoolWorkerPages(c, w)
    \/ \E c \in Calls : PoolWait(c)
    \/ \E c \in Calls : PoolAssemble(c)
    \/ \E c \in Calls : PoolReturnResult(c)

SpecPool == InitPool /\ [][NextPool]_vars

\* ------------------------------------------------------------------------
\* Reading the returned string
\* ------------------------------------------------------------------------
Doc == input.doc

Launched == {w \in Workers : wpc[w] # "none"}

AllWorkersDone == \A w \in 0 .. numWorkers - 1 : wpc[w] = "done"

\* the call returned the output of a document that has pages
ReturnedPages == pc = "done" /\ err = ErrNil /\ parsed /\ Len(Doc) >= 1

\* the page number of a '## Page N' header, -1 for any other piece
HeaderNum(piece) ==
    IF \E n \in 0 .. Len(Doc) + 1 : piece = PageHeader(n)
    THEN CHOOSE n \in 0 .. Len(Doc) + 1 : piece = PageHeader(n)
    ELSE -1

RECURSIVE HeaderNums(_)
HeaderNums(out) ==
    IF out = <<>> THEN <<>>
    ELSE IF HeaderNum(Head(out)) = -1 THEN HeaderNums(Tail(out))
    ELSE <<HeaderNum(Head(out))>> \o HeaderNums(Tail(out))

RECURSIVE CountOf(_, _)
CountOf(piece, out) ==
    IF out = <<>> THEN 0
    ELSE (IF Head(out) = piece THEN 1 ELSE 0) + CountOf(piece, Tail(out))

\* the pieces of out between the separators
RECURSIVE SplitBlocks(_, _)
SplitBlocks(out, cur) ==
    IF out = <<>> THEN <<cur>>
    ELSE IF Head(out) = PageSeparator THEN <<cur>> \o SplitBlocks(Tail(out), <<>>)
    ELSE SplitBlocks(Tail(out), Append(cur, Head(out)))

Blocks(out) == SplitBlocks(out, <<>>)

RECURSIVE SumCounts(_)
SumCounts(n) == IF n = 0 THEN 0 ELSE (wEnd[n - 1] - wStart[n - 1]) + SumCounts(n - 1)

\* ------------------------------------------------------------------------
\* C1: for a document with numPages >= 1, whatever the order in which the
\* workers run and complete, the returned string holds exactly one header
\* '## Page N' for each N in 1..numPages, in ascending order, with no gap
\* and no duplicate.
\* ------------------------------------------------------------------------
C1_HeadersAscending ==
    ReturnedPages => HeaderNums(result) = [n \in 1 .. Len(Doc) |-> n]

C1_Witness ==
    /\ ReturnedPages
    /\ Len(Doc) = MaxPages
    /\ numWorkers >= 2
    /\ HeaderNums(result) = [n \in 1 .. MaxPages |-> n]

\* ------------------------------------------------------------------------
\* C2: the ranges [pageStart, pageEnd) handed to workers 0..numWorkers-1
\* are contiguous, disjoint, in increasing page order, cover [1, numPages]
\* exactly once and their sizes sum to numPages (ranges handed out so far
\* cover [1, page) while the launch loop runs).
\* ------------------------------------------------------------------------
RangeOf(w) == wStart[w] .. wEnd[w] - 1

C2_RangesPartition ==
    LET k == Cardinality(Launched)
        upTo == IF pc \in {"numPages", "workers"} THEN 0
                ELSE IF pc = "launch" THEN page - 1 ELSE numPages
    IN  /\ Launched = 0 .. k - 1
        /\ k > 0 => wStart[0] = 1
        /\ \A w \in 1 .. k - 1 : wStart[w] = wEnd[w - 1]
        /\ \A w \in 0 .. k - 1 : wStart[w] <= wEnd[w]
        /\ \A v, w \in 0 .. k - 1 : v # w => RangeOf(v) \cap RangeOf(w) = {}
        /\ \A p \in 1 .. upTo : Cardinality({w \in 0 .. k - 1 : p \in RangeOf(w)}) = 1
        /\ \A w \in 0 .. k - 1 : RangeOf(w) \subseteq 1 .. upTo
        /\ SumCounts(k) = upTo
        /\ pc = "wait" => k = numWorkers /\ upTo = numPages

C2_Witness ==
    /\ pc = "wait"
    /\ numPages > maxConcurrency
    /\ numWorkers = maxConcurrency
    /\ extraPages > 0
    /\ wEnd[maxConcurrency - 1] = numPages + 1
    /\ SumCounts(numWorkers) = numPages

\* ------------------------------------------------------------------------
\* C3: the second call on the same input returns the same bytes and the
\* same error as the first call, whatever the number of workers and the
\* interleaving of the workers in either call.
\* ------------------------------------------------------------------------
C3_SameOutputTwice ==
    (run = 2 /\ pc = "done") =>
        /\ Bytes(result) = Bytes(prevResult)
        /\ err = prevErr

C3_Witness ==
    /\ run = 2
    /\ ReturnedPages
    /\ numWorkers >= 2
    /\ Len(result) > 0
    /\ Bytes(result) = Bytes(prevResult)

\* ------------------------------------------------------------------------
\* C4: the assembler reads a slot of workerBuffers, and the result holds
\* anything, only when every worker has finished and the wait group counter
\* is back at zero.
\* ------------------------------------------------------------------------
C4_AssemblyAfterBarrier ==
    (pc \in {"assemble", "panic"} \/ result # <<>>) => (AllWorkersDone /\ wg = 0)

C4_Witness ==
    /\ pc = "assemble"
    /\ numWorkers >= 2
    /\ i = 1
    /\ result # <<>>
    /\ AllWorkersDone

\* ------------------------------------------------------------------------
\* Errors, as the tests recognise them (strings.Contains(err.Error(), ...))
\* ------------------------------------------------------------------------
IsPDFTooLarge(e) == e # ErrNil /\ e[1] = "PDF too large: "

IsExceeds(e) == IsPDFTooLarge(e) /\ e[2] = "exceeds "

IsParseError(e) == e # ErrNil /\ e[1] = "failed to parse PDF: "

IsReadError(e) == e # ErrNil /\ e[1] = "failed to read PDF: "

\* ------------------------------------------------------------------------
\* C5 as stated: the call fails with a 'PDF too large' error exactly when
\* the declared contentLength is greater than 100 MiB, then before any byte
\* is read and before any pooled buffer is acquired; a declared length at
\* the ceiling or -1 proceeds to reading.
\* ------------------------------------------------------------------------
C5_Original ==
    pc = "done" =>
        /\ IsPDFTooLarge(err) <=> input.contentLength > maxPDFSize
        /\ input.contentLength > maxPDFSize =>
               ~readStarted /\ bytesRead = 0 /\ pool.pdfGet = 0 /\ pool.pageGet = 0
        /\ input.contentLength <= maxPDFSize => readStarted

\* C5 amended: the call fails with the declared-size error 'PDF too large:
\* <contentLength> bytes (max <ceiling> bytes)' exactly when the declared
\* contentLength is greater than 100 MiB, then before any byte is read and
\* before any pooled buffer is acquired; a declared length at the ceiling
\* or -1 is not rejected by this check and proceeds to reading (where the
\* read-limit check can still fail with 'PDF too large: exceeds ...').
C5_DeclaredOversize ==
    pc = "done" =>
        /\ err = ErrDeclaredTooLarge(input.contentLength)
               <=> input.contentLength > maxPDFSize
        /\ input.contentLength > maxPDFSize =>
               /\ result = <<>>
               /\ ~readStarted /\ bytesRead = 0
               /\ pool.pdfGet = 0 /\ pool.pageGet = 0
        /\ input.contentLength <= maxPDFSize =>
               readStarted /\ pool.pdfGet = 1

C5_Witness ==
    /\ pc = "done"
    /\ input.contentLength = maxPDFSize + 1
    /\ err = ErrDeclaredTooLarge(maxPDFSize + 1)
    /\ ~readStarted
    /\ pool.pdfGet = 0

\* ------------------------------------------------------------------------
\* C6: with a declared length that is unknown or at most the ceiling, a
\* stream of ceiling + 1 bytes or more fails with 'PDF too large: exceeds';
\* a stream that ends after exactly ceiling bytes passes the size guard and
\* reaches container parsing.
\* ------------------------------------------------------------------------
C6_ActualOversize ==
    (pc = "done" /\ input.contentLength <= maxPDFSize) =>
        /\ input.streamLen >= maxPDFSize + 1 =>
               IsExceeds(err) /\ result = <<>> /\ ~parsed
        /\ (input.streamLen = maxPDFSize /\ ~input.streamErr) =>
               parsed /\ ~IsPDFTooLarge(err) /\ ~IsReadError(err)

C6_Witness ==
    /\ pc = "done"
    /\ input.contentLength = -1
    /\ input.streamLen = maxPDFSize
    /\ bytesRead = maxPDFSize
    /\ parsed
    /\ err = ErrNil
    /\ Len(result) > 0

\* ------------------------------------------------------------------------
\* C7: when the declared length or the number of bytes read exceeds the
\* ceiling, the container is never parsed, no worker is launched, no range
\* buffer is acquired, no page is looked up, and the call ends in an error.
\* ------------------------------------------------------------------------
C7_OversizeAborts ==
    (input.contentLength > maxPDFSize \/ bytesRead > maxPDFSize) =>
        /\ ~parsed
        /\ Launched = {}
        /\ numWorkers = 0 /\ wg = 0
        /\ pool.pageGet = 0
        /\ lookups = <<>>
        /\ pc \in {"start", "checkLen", "done"}
        /\ pc = "done" => IsPDFTooLarge(err) /\ result = <<>>

C7_Witness ==
    /\ pc = "done"
    /\ input.contentLength <= maxPDFSize
    /\ bytesRead = maxPDFSize + 1
    /\ IsExceeds(err)
    /\ ~parsed

\* ------------------------------------------------------------------------
\* C8: a page whose lookup fails yields the block '## Page p' + '[Error:
\* page not found]'; every other page is extracted as without the failure,
\* every worker runs to its end, every page is looked up, and the error is
\* nil.
\* ------------------------------------------------------------------------
HasNullPage == \E p \in 1 .. Len(Doc) : Doc[p].null

C8_LookupFailureAbsorbed ==
    (pc = "done" /\ parsed /\ input.parseOK /\ HasNullPage) =>
        /\ err = ErrNil
        /\ AllWorkersDone
        /\ Len(Blocks(result)) = Len(Doc)
        /\ \A p \in 1 .. Len(Doc) :
              /\ lookups[p] = 1
              /\ Blocks(result)[p] =
                    IF Doc[p].null
                    THEN <<PageHeader(p), "[Error: page not found]\n">>
                    ELSE extractPageText(Doc[p], <<PageHeader(p)>>)

C8_Witness ==
    /\ ReturnedPages
    /\ Len(Doc) >= 3
    /\ Doc[2].null /\ ~Doc[1].null /\ Doc[3] = HelloPage
    /\ numWorkers >= 2
    /\ Blocks(result)[2] = <<PageHeader(2), PageNotFound>>
    /\ Len(Blocks(result)[3]) > 1

\* ------------------------------------------------------------------------
\* C9: when the bytes do not parse, the call returns 'failed to parse PDF'
\* with the empty string, and nothing of the scheduler has run: no page
\* count, no range, no worker.
\* ------------------------------------------------------------------------
C9_ParseFailureAborts ==
    (parsed /\ ~input.parseOK) =>
        /\ pc = "done"
        /\ IsParseError(err)
        /\ result = <<>>
        /\ numPages = 0 /\ numWorkers = 0 /\ page = 0 /\ wg = 0
        /\ Launched = {}
        /\ lookups = <<>>

C9_Witness ==
    /\ pc = "done"
    /\ parsed
    /\ ~input.parseOK
    /\ err = ErrParse
    /\ bytesRead > 0

\* ------------------------------------------------------------------------
\* C10: for numPages >= 1 the returned string is the blocks of pages
\* 1..numPages joined by '\n\n---\n\n', the block of page N being
\* '## Page N\n\n' followed by the text of page N or the error marker:
\* numPages - 1 separators, none first, none last.
\* ------------------------------------------------------------------------
ExpectedBlock(pageNum) ==
    <<PageHeader(pageNum)>> \o
    (IF Doc[pageNum].null THEN <<PageNotFound>>
     ELSE extractPageText(Doc[pageNum], <<>>))

RECURSIVE JoinBlocks(_)
JoinBlocks(n) ==
    IF n = 0 THEN <<>>
    ELSE IF n = 1 THEN ExpectedBlock(1)
    ELSE JoinBlocks(n - 1) \o <<PageSeparator>> \o ExpectedBlock(n)

C10_BlocksJoined ==
    ReturnedPages =>
        /\ result = JoinBlocks(Len(Doc))
        /\ CountOf(PageSeparator, result) = Len(Doc) - 1
        /\ Head(result) # PageSeparator
        /\ result[Len(result)] # PageSeparator

C10_Witness ==
    /\ ReturnedPages
    /\ Len(Doc) = MaxPages
    /\ numWorkers = 2
    /\ Doc[1] = HelloPage
    /\ CountOf(PageSeparator, result) = MaxPages - 1
    /\ result = JoinBlocks(MaxPages)

\* ------------------------------------------------------------------------
\* C11: with base = numPages / numWorkers and remainder = numPages %
\* numWorkers, workers with index < remainder receive base + 1 pages and
\* the others base pages, so two ranges differ by at most 1 page; 7 pages
\* over 3 workers gives pages 1-3, 4-5, 6-7.
\* ------------------------------------------------------------------------
RangeSize(w) == wEnd[w] - wStart[w]

C11_EvenShares ==
    Launched # {} =>
        LET base == numPages \div numWorkers
            remainder == numPages % numWorkers
        IN  /\ \A w \in Launched :
                  RangeSize(w) = IF w < remainder THEN base + 1 ELSE base
            /\ \A v, w \in Launched : RangeSize(v) - RangeSize(w) <= 1
            /\ (pc = "wait" /\ numPages = 7 /\ numWorkers = 3) =>
                  /\ wStart[0] = 1 /\ wEnd[0] = 4
                  /\ wStart[1] = 4 /\ wEnd[1] = 6
                  /\ wStart[2] = 6 /\ wEnd[2] = 8

C11_Witness ==
    /\ pc = "wait"
    /\ numPages = 7 /\ numWorkers = 3
    /\ RangeOf(0) = 1 .. 3 /\ RangeOf(1) = 4 .. 5 /\ RangeOf(2) = 6 .. 7

\* ------------------------------------------------------------------------
\* C12: for numPages >= 1 the call launches exactly numWorkers =
\* min(GOMAXPROCS, numPages, 32) workers, one per range; at every moment at
\* most 32 and at most numPages workers are running.
\* ------------------------------------------------------------------------
Running == {w \in Workers : wpc[w] \in {"get", "loop", "defer"}}

C12_WorkerCount ==
    /\ Cardinality(Running) <= 32
    /\ Cardinality(Running) <= numPages
    /\ pc \in {"launch", "wait", "assemble"} =>
          /\ numPages >= 1
          /\ numWorkers <= gomaxprocs /\ numWorkers <= numPages /\ numWorkers <= 32
          /\ numWorkers \in {gomaxprocs, numPages, 32}
    /\ pc \in {"wait", "assemble"} => Launched = 0 .. numWorkers - 1
    /\ pc = "launch" => Launched = 0 .. i - 1 /\ i <= numWorkers

C12_Witness ==
    /\ pc = "wait"
    /\ gomaxprocs > 32 /\ numPages > 32
    /\ numWorkers = 32
    /\ Cardinality(Launched) = 32
    /\ Cardinality(Running) = 32

\* ------------------------------------------------------------------------
\* C13: for a document of 0 pages the call returns the empty string and a
\* nil error, and computes no range, launches no worker and acquires no
\* range buffer.
\* ------------------------------------------------------------------------
C13_EmptyDocument ==
    (parsed /\ input.parseOK /\ Len(Doc) = 0) =>
        /\ pc \in {"numPages", "done"}
        /\ numWorkers = 0 /\ page = 0 /\ wg = 0
        /\ Launched = {}
        /\ pool.pageGet = 0
        /\ pc = "done" => result = <<>> /\ Bytes(result) = "" /\ err = ErrNil

C13_Witness ==
    /\ pc = "done"
    /\ parsed /\ input.parseOK
    /\ numPages = 0 /\ Len(Doc) = 0
    /\ err = ErrNil
    /\ result = <<>>
    /\ pool.pdfPut = 1

\* ------------------------------------------------------------------------
\* C14: during the parallel phase slot w of workerBuffers is written only
\* by worker w, when it stores its own buffer, and the range buffer of
\* worker w changes only in a step of worker w.
\* ------------------------------------------------------------------------
C14_OwnSlotOwnBuffer ==
    [][\A w \in Workers :
          /\ (pc \in {"launch", "wait"} /\ workerBuffers'[w] # workerBuffers[w]) =>
                /\ wpc[w] = "loop" /\ wpc'[w] = "defer"
                /\ workerBuffers'[w] = [set |-> TRUE, data |-> wBuf[w]]
                /\ \A v \in Workers \ {w} : workerBuffers'[v] = workerBuffers[v]
          /\ wBuf'[w] # wBuf[w] =>
                /\ wpc[w] \in {"get", "loop"}
                /\ wpc'[w] = "loop"
                /\ \A v \in Workers \ {w} :
                      wpc'[v] = wpc[v] /\ wPageNum'[v] = wPageNum[v] /\ wBuf'[v] = wBuf[v]
      ]_vars

C14_Witness ==
    /\ pc = "wait"
    /\ numWorkers >= 2
    /\ workerBuffers[1] = [set |-> TRUE, data |-> wBuf[1]]
    /\ ~workerBuffers[0].set
    /\ wpc[0] = "loop" /\ wBuf[0] # <<>>

\* ------------------------------------------------------------------------
\* C15: for a non-empty fragment after the first, a y more than 1.0 away
\* from the y of the last emitted fragment writes exactly one newline and no
\* space before the text, whatever x, width and font size; a difference of
\* 1.0 or less writes no newline.
\* ------------------------------------------------------------------------
TextStepped == ept'.n = ept.n + 1

C15_NewLine ==
    [][(TextStepped /\ ept'.t.S # "" /\ ept.st.hasLast) =>
          LET cur == ept'.t
              dy == cur.Y - ept.st.lastText.Y
              out == ept.st.out
          IN  IF dy > 1 \/ dy < -1
              THEN ept'.st.out = out \o <<"\n", cur.S>>
              ELSE ept'.st.out \in {out \o <<cur.S>>, out \o <<" ", cur.S>>}
      ]_vars

C15_Witness ==
    /\ ept.n = 2
    /\ ept.t.S = "b" /\ ept.t.Y = 0 /\ ept.t.X = MaxX
    /\ ept.st.out = <<"a", "\n", "b">>

\* ------------------------------------------------------------------------
\* C16: for a non-empty fragment on the line of the last emitted fragment
\* (|dy| <= 1.0), with gap = x - (last.x + last.width) and threshold =
\* max(1.0, 0.2 * last.fontSize): one space is written before the text if
\* gap > threshold, nothing if gap <= threshold (negative or equal too).
\* ------------------------------------------------------------------------
C16_WordGap ==
    [][(TextStepped /\ ept'.t.S # "" /\ ept.st.hasLast
          /\ ept'.t.Y - ept.st.lastText.Y \in -1 .. 1) =>
          LET cur == ept'.t
              last == ept.st.lastText
              gap == cur.X - (last.X + last.W)
              out == ept.st.out
          IN  IF gap > 1 /\ 5 * gap > last.FontSize
              THEN ept'.st.out = out \o <<" ", cur.S>>
              ELSE ept'.st.out = out \o <<cur.S>>
      ]_vars

C16_Witness ==
    /\ ept.n = 3
    /\ ept.t.S = "b" /\ ept.t.FontSize = 4
    /\ ept.st.out = <<PageHeader(1), "a", "b", " ", "b">>

\* ------------------------------------------------------------------------
\* C17: a fragment with empty text writes nothing and leaves the cursor
\* where it was; the first non-empty fragment is written verbatim without a
\* separator; a page with no fragment or only empty fragments writes
\* nothing.
\* ------------------------------------------------------------------------
C17_EmptyAndFirst ==
    [][/\ (TextStepped /\ ept'.t.S = "") => ept'.st = ept.st
       /\ (TextStepped /\ ept'.t.S # "" /\ ~ept.st.hasLast) =>
             ept'.st = [out |-> ept.st.out \o <<ept'.t.S>>, hasLast |-> TRUE,
                        lastText |-> ept'.t]
       /\ ~TextStepped => ept'.st = ept.st
       /\ (ept.pc = "entry" /\ ept'.pc = "return") => ept'.n = 0
       /\ ~ept'.st.hasLast => ept'.st.out \in {<<>>, <<PageHeader(1)>>}
      ]_vars

C17_Witness ==
    /\ ept.pc = "return"
    /\ ept.n = 3
    /\ ept.t.S = "" /\ ept.t.Y = MaxY
    /\ ~ept.st.hasLast
    /\ ept.st.out = <<PageHeader(1)>>

\* ------------------------------------------------------------------------
\* C18: the assembler writes a separator before a buffer only when that
\* buffer is not the first one and the buffer before it was not empty, and
\* what it appends otherwise is the buffer itself; an empty buffer would
\* add nothing.
\* ------------------------------------------------------------------------
AssembleStepped == pc = "assemble" /\ pc' = "assemble" /\ i' = i + 1

RECURSIVE AssembledUpTo(_)
AssembledUpTo(k) ==
    IF k = 0 THEN <<>>
    ELSE IF k = 1 THEN wBuf[0]
    ELSE AssembledUpTo(k - 1) \o <<PageSeparator>> \o wBuf[k - 1]

C19_BuffersReturned ==
    (numWorkers > 0 /\ pc \in {"assemble", "done"}) =>
        /\ pool.pageGet = numWorkers
        /\ pool.pagePut = i
        /\ result = AssembledUpTo(i)
        /\ \A w \in 0 .. i - 1 : workerBuffers[w] = [set |-> TRUE, data |-> <<>>]
        /\ \A w \in i .. numWorkers - 1 :
              workerBuffers[w] = [set |-> TRUE, data |-> wBuf[w]]
        /\ pool.pdfGet = 1
        /\ pc = "assemble" => buf.held /\ pool.pdfPut = 0
        /\ pc = "done" =>
              /\ i = numWorkers
              /\ buf = [held |-> FALSE, len |-> 0]
              /\ pool.pdfPut = 1

C19_Witness ==
    /\ pc = "done"
    /\ numWorkers = 2
    /\ pool.pageGet = 2 /\ pool.pagePut = 2
    /\ pool.pdfGet = 1 /\ pool.pdfPut = 1
    /\ ~buf.held
    /\ workerBuffers[0].data = <<>> /\ workerBuffers[1].data = <<>>
    /\ Len(result) > 0

\* ------------------------------------------------------------------------
\* C20: a call ends either with a non-nil error and the empty string
\* (declared oversize, read failure, actual oversize, parse failure) or with
\* a nil error and the complete output; never with an error and a non-empty
\* result.
\* ------------------------------------------------------------------------
InputFails ==
    \/ input.contentLength > maxPDFSize
    \/ input.streamErr /\ input.streamLen <= maxPDFSize
    \/ input.streamLen > maxPDFSize
    \/ ~input.parseOK

C20_ErrorOrOutput ==
    pc = "done" =>
        \/ /\ InputFails
           /\ err \in {ErrDeclaredTooLarge(input.contentLength), ErrRead,
                       ErrActualTooLarge, ErrParse}
           /\ result = <<>> /\ Bytes(result) = ""
        \/ /\ ~InputFails
           /\ err = ErrNil
           /\ result = JoinBlocks(Len(Doc))

C20_Witness ==
    /\ pc = "done"
    /\ input.streamErr /\ input.streamLen = 5 /\ input.parseOK /\ Len(Doc) > 0
    /\ bytesRead = 5
    /\ err = ErrRead
    /\ result = <<>>

\* ------------------------------------------------------------------------
\* C21: whatever the length of the stream, the call consumes at most
\* ceiling + 1 bytes (100 MiB + 1) from it, and the ingestion buffer never
\* holds more than ceiling + 1 bytes.
\* ------------------------------------------------------------------------
C21_BoundedIngestion ==
    /\ bytesRead <= maxPDFSize + 1
    /\ bytesRead <= input.streamLen
    /\ buf.len <= maxPDFSize + 1
    /\ buf.len <= bytesRead

C21_Witness ==
    /\ pc = "checkLen"
    /\ input.streamLen = maxPDFSize + 100
    /\ bytesRead = maxPDFSize + 1
    /\ buf = [held |-> TRUE, len |-> maxPDFSize + 1]

\* ------------------------------------------------------------------------
\* A step of the launched worker w: its position or its page counter changes
\* ------------------------------------------------------------------------
WorkerStepped(w) ==
    wpc[w] # "none" /\ (wpc'[w] # wpc[w] \/ wPageNum'[w] # wPageNum[w])

\* what no worker step changes: the Document, the page count, the ingestion
\* buffer, the state of the calling goroutine and the state of the others
WorkerFrame(w) ==
    /\ input' = input /\ numPages' = numPages
    /\ buf' = buf /\ bytesRead' = bytesRead /\ parsed' = parsed
    /\ UNCHANGED <<pc, numWorkers, pagesPerWorker, extraPages, page, i, result, err,
                   wStart, wEnd>>
    /\ \A v \in Workers \ {w} :
          /\ wpc'[v] = wpc[v] /\ wPageNum'[v] = wPageNum[v]
          /\ wBuf'[v] = wBuf[v] /\ workerBuffers'[v] = workerBuffers[v]

\* ------------------------------------------------------------------------
\* C22 as stated: no worker step changes the Document, the page count or
\* the ingestion buffer, and the only state a worker changes is its own
\* range buffer and its own slot of workerBuffers.
\* ------------------------------------------------------------------------
C22_Original ==
    [][\A w \in Workers : WorkerStepped(w) =>
          /\ WorkerFrame(w)
          /\ pool' = pool
          /\ wg' = wg
      ]_vars

\* C22 amended: no worker step changes the Document, the page count or the
\* ingestion buffer; besides its own range buffer and its own slot of
\* workerBuffers a worker changes only the page buffer pool, by the one Get
\* of its first step, and the wait group counter, by the one Done of its
\* last step.
C22_WorkersOnlyRead ==
    [][\A w \in Workers : WorkerStepped(w) =>
          /\ WorkerFrame(w)
          /\ pool' = IF wpc[w] = "get" THEN [pool EXCEPT !.pageGet = @ + 1] ELSE pool
          /\ wg' = IF wpc[w] = "defer" THEN wg - 1 ELSE wg
          /\ wBuf'[w] # wBuf[w] => wpc[w] \in {"get", "loop"}
          /\ workerBuffers'[w] # workerBuffers[w] =>
                workerBuffers'[w] = [set |-> TRUE, data |-> wBuf[w]]
      ]_vars

C22_Witness ==
    /\ pc = "wait"
    /\ numWorkers = 2
    /\ wpc[0] = "done" /\ workerBuffers[0].set
    /\ wpc[1] = "loop" /\ wBuf[1] # <<>> /\ ~workerBuffers[1].set
    /\ wg = 1
    /\ buf = [held |-> TRUE, len |-> 5]
    /\ numPages = Len(input.doc)

\* ------------------------------------------------------------------------
\* C23: handleWebfetch, with the effective limit L (max_content_tokens when
\* it is > 0, otherwise 100000): content longer than L is returned as its
\* first L bytes followed by '\n\n... (truncated)'; content of length at
\* most L is returned unchanged.
\* ------------------------------------------------------------------------
ContentReturned == fetch.pc = "returned" /\ ~fetch.isError

C23_Truncation ==
    ContentReturned =>
        LET L == IF fetch.MaxContentTokens > 0 THEN fetch.MaxContentTokens ELSE 100000
            content == fetch.markdown
            text == fetch.text
        IN  IF Len(content) > L
            THEN /\ Len(text) = L + 17
                 /\ SubSeq(text, 1, L) = SubSeq(content, 1, L)
                 /\ SubSeq(text, L + 1, L + 17) = "\n\n... (truncated)"
            ELSE text = content

C23_Witness ==
    /\ ContentReturned
    /\ fetch.MaxContentTokens = 0
    /\ Len(fetch.markdown) = 100001
    /\ Len(fetch.text) = 100017
    /\ SubSeq(fetch.text, 99999, 100017) = "ab\n\n... (truncated)"

\* ------------------------------------------------------------------------
\* C24: FetchAndConvert checks the response in a fixed order: a status
\* other than 200 yields 'unexpected status code: <code>' whatever the
\* content type, without reading the body or running a converter; with
\* status 200 a PDF content type routes to the PDF converter with the
\* advertised Content-Length, otherwise an HTML content type routes to the
\* HTML converter, otherwise the call fails with 'unsupported content type'
\* and runs no converter.
\* ------------------------------------------------------------------------
PDFTypes == {"application/pdf", "application/pdf; charset=binary", "APPLICATION/PDF",
             "text/html, application/pdf"}

HTMLTypes == {"text/html", "text/html; charset=utf-8", "Text/HTML",
              "application/xhtml+xml"}

NoConverterRan ==
    /\ fetch.converter = "none"
    /\ ~fetch.bodyRead
    /\ pc = "idle" /\ ~readStarted

C24_ResponseRouting ==
    fetch.resp # NoResp =>
        LET code == fetch.resp.StatusCode
            contentType == fetch.resp.ContentType
            routed == fetch.pc \in {"pdf", "html", "fcDone", "returned"}
        IN  /\ code # 200 =>
                  /\ fetch.pc \in {"status", "fcDone", "returned"}
                  /\ NoConverterRan
                  /\ fetch.pc # "status" =>
                        /\ fetch.err = <<"unexpected status code: ", ToString(code)>>
                        /\ fetch.markdown = ""
            /\ (code = 200 /\ routed /\ contentType \in PDFTypes) =>
                  /\ fetch.converter = "pdf"
                  /\ fetch.pdfContentLength = fetch.resp.ContentLength
                  /\ input.contentLength = fetch.resp.ContentLength
                  /\ pc # "idle"
            /\ (code = 200 /\ routed /\ contentType \in HTMLTypes \ PDFTypes) =>
                  /\ fetch.converter = "html"
                  /\ pc = "idle"
            /\ (code = 200 /\ routed /\ contentType \notin HTMLTypes \cup PDFTypes) =>
                  /\ NoConverterRan
                  /\ fetch.err # ErrNil
                  /\ fetch.err[1] = "unsupported content type: "
                  /\ fetch.markdown = ""

C24_Witness ==
    /\ fetch.pc = "fcDone"
    /\ fetch.resp.StatusCode = 404
    /\ fetch.resp.ContentType = "application/pdf"
    /\ fetch.err = <<"unexpected status code: ", "404">>
    /\ fetch.converter = "none" /\ ~fetch.bodyRead /\ pc = "idle"

\* ------------------------------------------------------------------------
\* C25: FetchAndConvert rejects a URL that does not parse, or whose scheme
\* or host is empty (the empty URL too), with an 'invalid URL' error, before
\* any HTTP request is created or sent.
\* ------------------------------------------------------------------------
UnparsableURLs == {"://example.com", "http://exa mple.com"}

NoSchemeOrHostURLs == {"http:///page", "mailto:user@example.com", "//example.com/page",
                       "example.com/page", ""}

\* FetchAndConvert was called and has returned
FetchReturned ==
    \/ fetch.pc = "fcDone"
    \/ fetch.pc = "returned" /\ (fetch.err # ErrNil \/ ~fetch.isError)

IsInvalidURL(e) == e # ErrNil /\ e[1] = "invalid URL: "

C25_InvalidURLRejected ==
    /\ fetch.URL \in UnparsableURLs \cup NoSchemeOrHostURLs =>
          /\ ~fetch.requestCreated /\ ~fetch.requestSent
          /\ fetch.resp = NoResp /\ fetch.converter = "none"
          /\ fetch.pc \in {"handle", "validate", "fcDone", "returned"}
          /\ FetchReturned => IsInvalidURL(fetch.err) /\ fetch.markdown = ""
    /\ fetch.URL \notin UnparsableURLs \cup NoSchemeOrHostURLs =>
          ~IsInvalidURL(fetch.err)

C25_Witness ==
    /\ fetch.pc = "fcDone"
    /\ fetch.direct
    /\ fetch.URL = ""
    /\ fetch.ctxNil
    /\ fetch.err = <<"invalid URL: ", "missing scheme or host">>
    /\ ~fetch.requestCreated /\ ~fetch.requestSent

\* ------------------------------------------------------------------------
\* Lines of a Markdown string
\* ------------------------------------------------------------------------
IsBlank(line) == \A k \in 1 .. Len(line) : IsSpace(CharAt(line, k))

LinesOf(s) == SplitLines(s, "")

NonBlankLines(s) == SelectSeq(LinesOf(s), LAMBDA line : ~IsBlank(line))

NoTwoBlankLines(s) ==
    \A k \in 1 .. Len(LinesOf(s)) - 1 :
        ~(IsBlank(LinesOf(s)[k]) /\ IsBlank(LinesOf(s)[k + 1]))

NoSurroundingSpace(s) ==
    Len(s) = 0 \/ (~IsSpace(CharAt(s, 1)) /\ ~IsSpace(CharAt(s, Len(s))))

\* the lines ls with the first one stripped on the left and the last one
\* stripped on the right
StripEnds(ls) ==
    [k \in 1 .. Len(ls) |->
        LET left == IF k = 1 THEN TrimLeft(ls[k]) ELSE ls[k]
        IN  IF k = Len(ls) THEN TrimRight(left) ELSE left]

CleanupReturned == cleanup.pc = "return"

\* ------------------------------------------------------------------------
\* C26 as stated: the output of cleanupMarkdown has no two consecutive
\* blank lines and no leading or trailing whitespace, and keeps every
\* non-blank line of the input unchanged and in the same order; an input
\* with no run of two or more blank lines and no surrounding whitespace is
\* returned unchanged.
\* ------------------------------------------------------------------------
C26_Original ==
    CleanupReturned =>
        /\ NoTwoBlankLines(cleanup.out)
        /\ NoSurroundingSpace(cleanup.out)
        /\ NonBlankLines(cleanup.out) = NonBlankLines(cleanup.markdown)
        /\ (NoTwoBlankLines(cleanup.markdown) /\ NoSurroundingSpace(cleanup.markdown)) =>
               cleanup.out = cleanup.markdown

\* C26 amended: the output has no two consecutive blank lines and no
\* leading or trailing whitespace, and keeps the non-blank lines of the
\* input in the same order, unchanged except that the leading whitespace of
\* the first non-blank line and the trailing whitespace of the last one are
\* removed; an input with no run of two or more blank lines and no
\* surrounding whitespace is returned unchanged.
C26_CleanupMarkdown ==
    CleanupReturned =>
        /\ NoTwoBlankLines(cleanup.out)
        /\ NoSurroundingSpace(cleanup.out)
        /\ NonBlankLines(cleanup.out) = StripEnds(NonBlankLines(cleanup.markdown))
        /\ (NoTwoBlankLines(cleanup.markdown) /\ NoSurroundingSpace(cleanup.markdown)) =>
               cleanup.out = cleanup.markdown

C26_Witness ==
    /\ CleanupReturned
    /\ cleanup.markdown = " a\n\n\nb"
    /\ cleanup.lines = <<" a", "", "", "b">>
    /\ cleanup.result = <<" a", "", "b">>
    /\ cleanup.out = "a\n\nb"

\* ------------------------------------------------------------------------
\* C27: in a call that reaches the parallel phase each page 1..numPages is
\* looked up and reconstructed exactly once, by the one worker whose range
\* holds it, in ascending page order within that worker; no page is
\* processed twice or retried, and none is skipped.
\* ------------------------------------------------------------------------
C27_EachPageOnce ==
    [][/\ \A p \in DOMAIN lookups :
             lookups'[p] # lookups[p] =>
                /\ lookups[p] = 0 /\ lookups'[p] = 1
                /\ \A q \in DOMAIN lookups \ {p} : lookups'[q] = lookups[q]
                /\ \E w \in 0 .. numWorkers - 1 :
                      /\ wpc[w] = "loop"
                      /\ wPageNum[w] = p /\ wPageNum'[w] = p + 1
                      /\ p \in RangeOf(w)
                      /\ \A v \in (0 .. numWorkers - 1) \ {w} :
                            p \notin RangeOf(v) /\ wPageNum'[v] = wPageNum[v]
       /\ \A w \in Workers :
             wPageNum'[w] # wPageNum[w] =>
                \/ wpc[w] = "get" /\ wPageNum'[w] = wStart[w]
                \/ /\ wpc[w] = "loop"
                   /\ wPageNum'[w] = wPageNum[w] + 1
                   /\ lookups'[wPageNum[w]] = lookups[wPageNum[w]] + 1
       /\ (pc' \in {"assemble", "done"} /\ numWorkers' > 0) =>
             \A p \in 1 .. numPages' : lookups'[p] = 1
      ]_vars

C27_Witness ==
    /\ pc = "wait"
    /\ numPages = 3 /\ numWorkers = 2
    /\ wpc[0] = "loop" /\ wPageNum[0] = 2
    /\ wpc[1] = "done"
    /\ lookups = <<1, 0, 1>>
    /\ input.doc[1].null

\* ------------------------------------------------------------------------
\* C28: the output does not depend on the number of workers: the run with
\* any numWorkers in 1..min(numPages, 32) returns the same string as the
\* sequential run with a single worker, the separator the assembler writes
\* at a range boundary being the one a worker writes between two pages of
\* its range.
\* ------------------------------------------------------------------------
C28_SameAsSequential ==
    (run = 2 /\ pc = "done" /\ prevNumWorkers = 1) =>
        /\ numWorkers \in 1 .. Min2(numPages, 32)
        /\ numWorkers = 1 => result = wBuf[0]
        /\ result = prevResult
        /\ Bytes(result) = Bytes(prevResult)
        /\ CountOf(PageSeparator, result) = numPages - 1

C28_Witness ==
    /\ run = 2 /\ pc = "done"
    /\ prevNumWorkers = 1
    /\ numWorkers = 3 /\ numPages = 3
    /\ CountOf(PageSeparator, wBuf[0]) = 0
    /\ CountOf(PageSeparator, prevResult) = 2
    /\ result = prevResult

\* ------------------------------------------------------------------------
\* C29: under fair scheduling every worker terminates, the wait group
\* counter set to numWorkers is decremented once per worker, never goes
\* below zero and reaches zero, and the call eventually returns: the caller
\* is not blocked forever at the barrier.
\* ------------------------------------------------------------------------
WorkersFinished == Cardinality({w \in Workers : wpc[w] = "done"})

C29_Terminates ==
    /\ [](/\ wg >= 0
          /\ (numWorkers > 0 /\ pc \in {"launch", "wait", "assemble", "done"}) =>
                wg = numWorkers - WorkersFinished
          /\ pc = "done" => (wg = 0 /\ AllWorkersDone))
    /\ [][wg' < wg =>
             /\ wg' = wg - 1
             /\ \E w \in Workers : wpc[w] = "defer" /\ wpc'[w] = "done"]_vars
    /\ <>(pc = "done")

C29_Witness ==
    /\ pc = "done"
    /\ numWorkers = 3
    /\ WorkersFinished = 3
    /\ wg = 0
    /\ err = ErrNil

\* ------------------------------------------------------------------------
\* C30: when several calls of convertPDFToMarkdown run concurrently on the
\* shared pools, no buffer is held by two holders (two workers or two
\* calls) at a time, a buffer lies in its pool only when no holder has a
\* read or write of it left, a buffer just acquired is empty, and the
\* result of a call holds only bytes of that call, page by page: none of
\* another call and none left over from an earlier use of a buffer.
\* ------------------------------------------------------------------------
\* the calls that hold ingestion buffer id: from Get to the deferred Put
PdfHolders(id) == {c \in Calls : calls[c].buf = id}

\* worker w of call c has acquired its buffer and the assembly loop of the
\* call has not put it back yet
HoldsPageBuffer(c, w) ==
    /\ calls[c].pc \in {"wait", "assemble"}
    /\ calls[c].wpc[w] \in {"loop", "done"}
    /\ ~(calls[c].pc = "assemble" /\ w < calls[c].i)

PageHolders(id) ==
    {h \in Calls \X PoolWorkers(Len(PoolDoc)) :
        /\ h[2] \in DOMAIN calls[h[1]].wpc
        /\ HoldsPageBuffer(h[1], h[2])
        /\ calls[h[1]].workerBuf[h[2]] = id}

\* the pages of call c as a sequential conversion writes them
OwnPages(c) == [p \in 1 .. Len(PoolDoc) |-> [from |-> <<c>>, page |-> p]]

IsPage(piece) == piece # PoolSeparator

C30_PooledBuffersNotShared ==
    /\ \A id \in DOMAIN pdfBufferPool :
          /\ Cardinality(PdfHolders(id)) + pdfBufferPool[id] <= 1
          /\ pdfBufferPool[id] > 0 => buffers.pdf[id] = <<>>
    /\ \A id \in DOMAIN pageBufferPool :
          /\ Cardinality(PageHolders(id)) + pageBufferPool[id] <= 1
          /\ pageBufferPool[id] > 0 => buffers.page[id] = <<>>
    /\ \A c \in Calls :
          /\ calls[c].pc = "read" => buffers.pdf[calls[c].buf] = <<>>
          /\ calls[c].pc \in {"parse", "wait", "assemble"} =>
                buffers.pdf[calls[c].buf] = <<c>>
          /\ \A w \in DOMAIN calls[c].wpc :
                /\ calls[c].wpc[w] = "loop" =>
                      buffers.page[calls[c].workerBuf[w]] = <<>>
                /\ (HoldsPageBuffer(c, w) /\ calls[c].wpc[w] # "loop") =>
                      buffers.page[calls[c].workerBuf[w]] =
                          PoolBlocks(PoolRange(calls[c].numWorkers, w), <<c>>)
          /\ \A k \in DOMAIN calls[c].result :
                IsPage(calls[c].result[k]) => calls[c].result[k].from = <<c>>
          /\ (calls[c].pc = "done" /\ calls[c].err = ErrNil) =>
                SelectSeq(calls[c].result, IsPage) = OwnPages(c)

\* call 1 has put the buffer of its first worker back and is still
\* assembling; a worker of call 2 has acquired that buffer and written its
\* own pages to it
C30_Witness ==
    /\ calls[1].pc = "assemble"
    /\ calls[1].numWorkers = 2
    /\ calls[1].i = 1
    /\ SelectSeq(calls[1].result, IsPage) = <<[from |-> <<1>>, page |-> 1]>>
    /\ calls[2].pc = "wait"
    /\ \E w \in DOMAIN calls[2].wpc :
          /\ calls[2].wpc[w] = "done"
          /\ calls[2].workerBuf[w] = calls[1].workerBuffers[0]
          /\ buffers.page[calls[2].workerBuf[w]] # <<>>

\* ------------------------------------------------------------------------
\* C31: while the assembler runs, every slot it has not read yet, from i up
\* to numWorkers - 1, holds a buffer that is not nil and not empty and that
\* starts with the header of the first page of its range; at its start
\* these are all the slots below numWorkers.  Every worker index in use is
\* below numWorkers, which is at most maxConcurrency; the slots from
\* numWorkers on are never written, and the assembler reads only slots
\* below numWorkers and never meets a nil slot.
\* ------------------------------------------------------------------------
SlotFilled(k) ==
    /\ workerBuffers[k].set
    /\ Len(workerBuffers[k].data) > 0
    /\ Head(workerBuffers[k].data) = PageHeader(wStart[k])
    /\ wEnd[k] > wStart[k]

C31_SlotsFilled ==
    /\ [](/\ pc = "assemble" => \A k \in i .. numWorkers - 1 : SlotFilled(k)
          /\ numWorkers <= maxConcurrency
          /\ \A w \in Workers : wpc[w] # "none" => w < numWorkers
          /\ \A k \in Workers : k >= numWorkers => workerBuffers[k] = NilSlot
          /\ pc # "panic")
    /\ [][(pc = "assemble" /\ i' # i) => (i < numWorkers /\ workerBuffers[i].set)]_vars

\* the assembler is about to start on three slots, each filled
C31_Witness ==
    /\ pc = "assemble"
    /\ i = 0
    /\ numWorkers = 3
    /\ \A k \in 0 .. 2 : SlotFilled(k)
    /\ workerBuffers[3] = NilSlot

\* ------------------------------------------------------------------------
\* C32: the ingestion buffer is acquired at most once and put back only by
\* a return.  When the call has returned after acquiring it (read failure,
\* actual oversize, parse failure, zero pages, success) the buffer was
\* reset and put back exactly once and the call holds it no more; when the
\* call has returned on the declared-oversize path no buffer was acquired
\* and none was put back.
\* ------------------------------------------------------------------------
ExitPath ==
    IF err = ErrDeclaredTooLarge(input.contentLength) THEN "declared oversize"
    ELSE IF err = ErrRead THEN "read failure"
    ELSE IF err = ErrActualTooLarge THEN "actual oversize"
    ELSE IF err = ErrParse THEN "parse failure"
    ELSE IF numPages = 0 THEN "zero pages"
    ELSE "success"

C32_IngestionBufferOnExit ==
    /\ pool.pdfGet \in {0, 1}
    /\ pool.pdfPut <= pool.pdfGet
    /\ buf.held <=> (pool.pdfGet = 1 /\ pool.pdfPut = 0)
    /\ pc \notin {"done", "panic"} => pool.pdfPut = 0
    /\ pc = "done" =>
          /\ buf = [held |-> FALSE, len |-> 0]
          /\ ExitPath = "declared oversize" <=> input.contentLength > maxPDFSize
          /\ IF ExitPath = "declared oversize"
             THEN pool.pdfGet = 0 /\ pool.pdfPut = 0 /\ ~readStarted
             ELSE pool.pdfGet = 1 /\ pool.pdfPut = 1 /\ readStarted

\* the call has returned on the read failure path after reading bytes into
\* the buffer it acquired
C32_Witness ==
    /\ pc = "done"
    /\ ExitPath = "read failure"
    /\ bytesRead > 0
    /\ pool.pdfGet = 1 /\ pool.pdfPut = 1
    /\ buf = NoBuf

\* ------------------------------------------------------------------------
\* C33: whatever fragments extractPageText has visited, what it has written
\* to the buffer is the texts of the non-empty ones in the order of the
\* input, none dropped, repeated or moved, with at most one piece between
\* two consecutive texts, that piece being one space or one newline, and
\* with nothing before the first text and nothing after the last.
\* ------------------------------------------------------------------------
\* what was written after the content the buffer had at the call
WrittenText ==
    IF ept.st.out # <<>> /\ Head(ept.st.out) = PageHeader(1)
    THEN Tail(ept.st.out) ELSE ept.st.out

IsInserted(piece) == piece \in {" ", "\n"}

IsFragmentText(piece) == ~IsInserted(piece)

IsNonEmptyText(s) == s # ""

C33_TextsInInputOrder ==
    ept.pc \in {"loop", "return"} =>
        /\ Len(ept.text) = ept.n
        /\ SelectSeq(WrittenText, IsFragmentText) = SelectSeq(ept.text, IsNonEmptyText)
        /\ WrittenText # <<>> =>
              /\ IsFragmentText(Head(WrittenText))
              /\ IsFragmentText(WrittenText[Len(WrittenText)])
        /\ \A k \in 1 .. Len(WrittenText) - 1 :
              ~(IsInserted(WrittenText[k]) /\ IsInserted(WrittenText[k + 1]))

\* three fragments, the one in the middle empty: the two texts are written
\* in order with one space between them
C33_Witness ==
    /\ ept.pc = "return"
    /\ ept.text = <<"a", "", "b">>
    /\ ept.st.out = <<PageHeader(1), "a", " ", "b">>

====
